---- MODULE Spec2Model ----
(***************************************************************************)
(* A model of the review harvester of google-reviews-analyzer:             *)
(*   - src/src/scrape_reviews.py : scrape_reviews_from_place_urls, the     *)
(*     multi-feed run that saves to the database (prog = "urls");          *)
(*   - src/src/scrape.py : scrape_reviews_from_place_url, the single-feed  *)
(*     run that saves to a CSV file (prog = "url");                        *)
(*   - the extractors and their helpers (parse_rating_from_text,           *)
(*     _cleanup_keep_english, parse_reviews_from_place_html), as           *)
(*     operators, exercised on drawn inputs by prog = "rating" / "text".   *)
(* Strings are modelled by what the code reads of them: a rating label is  *)
(* a sequence of characters, a review text is a run-length encoded string. *)
(***************************************************************************)
EXTENDS Integers, Sequences, FiniteSets, TLC

\* ---------------------------------------------------------------- bounds

\* Longest rating label drawn (characters).
MaxLabelLen == 3
\* Most runs in a drawn review text.
MaxRuns == 2
\* Most adapter / sink failures injected in one run.
MaxFaults == 1
\* Largest scroll height the page reports (heights are 0..MaxHeight).
MaxHeight == 1
\* Target record count per feed (env MAX_REVIEWS_PER_BRANCH, a configuration knob).
MAX_REVIEWS_PER_BRANCH == 2
\* scrape.py, env SCROLL_PAUSE_TIME, seconds: the least wait of a scroll iteration.
SCROLL_PAUSE_TIME == 25
\* Most calls of the sink made in a row.
MaxCalls == 2
\* Most records in the list of one call of the sink.
MaxBatch == 2
\* Most ids one round of a seen set observes.
MaxIds == 2
\* Most words of a date string.
MaxDateWords == 3
\* Most blocks of the list of one call of an extractor.
MaxBlocks == 2
\* Most entries of the list of branches.json.
MaxEntries == 2
\* Most words of a snapshot handed to the detector.
MaxSnapWords == 3

\* ------------------------------------------------------- program constants

MinTextLen == 10
SnippetLen == 160
max_stagnant_loops == 15
max_total_attempts == 5
timeout_seconds == 60
FewReviews == 10
\* scrape.py
MAX_RETRIES == 5
max_stagnant_loops_url == 40
timeout_seconds_url == 300
NoNewSort == 5
max_no_new_rounds == 8
max_modal_no_new == 15
max_modal_rounds == 300
max_rounds == 200
extra_rounds == 12

\* ------------------------------------------------------------ characters

AsciiDigits == {"0", "1", "2", "3", "4", "5", "6", "7", "8", "9"}
\* Arabic-Indic digits, written "ar0" .. "ar9".
ArabicDigits == {"ar0", "ar1", "ar2", "ar3", "ar4", "ar5", "ar6", "ar7", "ar8", "ar9"}
\* Besides digits a label holds the letter "x" and the words "Rated " (the
\* word and the space after it), " stars" (the space and the word) and
\* "Rating of" (the two words), each one token.

\* arabic_map.get(ch, ch)
arabic_map(ch) ==
    CASE ch = "ar0" -> "0" [] ch = "ar1" -> "1" [] ch = "ar2" -> "2"
      [] ch = "ar3" -> "3" [] ch = "ar4" -> "4" [] ch = "ar5" -> "5"
      [] ch = "ar6" -> "6" [] ch = "ar7" -> "7" [] ch = "ar8" -> "8"
      [] ch = "ar9" -> "9" [] OTHER -> ch

\* ''.join(arabic_map.get(ch, ch) for ch in s)
Normalize(s) == [k \in 1..Len(s) |-> arabic_map(s[k])]

\* [0-9]
IsAsciiDigit(ch) == ch \in AsciiDigits
\* \d on a str pattern: any Unicode decimal digit
IsDigit(ch) == ch \in AsciiDigits \cup ArabicDigits
\* \w, of the first character of ch
IsWord(ch) == IsDigit(ch) \/ ch \in {"x", "Rated ", "Rating of"}
\* \w, of the last character of ch
IsWordEnd(ch) == IsDigit(ch) \/ ch \in {"x", " stars", "Rating of"}
\* \s
IsSpace(ch) == ch = " "

\* int() of one digit character
DigitVal(ch) ==
    LET d == arabic_map(ch)
    IN CASE d = "0" -> 0 [] d = "1" -> 1 [] d = "2" -> 2 [] d = "3" -> 3
         [] d = "4" -> 4 [] d = "5" -> 5 [] d = "6" -> 6 [] d = "7" -> 7
         [] d = "8" -> 8 [] OTHER -> 9

RECURSIVE IntOf(_, _, _)
\* int(s[p..q]) for a run of digits
IntOf(s, p, q) == IF q < p THEN 0 ELSE 10 * IntOf(s, p, q - 1) + DigitVal(s[q])

\* \b after position j (between s[j] and s[j+1])
Boundary(s, j) ==
    LET left == j >= 1 /\ j <= Len(s) /\ IsWordEnd(s[j])
        right == j + 1 >= 1 /\ j + 1 <= Len(s) /\ IsWord(s[j + 1])
    IN left # right

\* s[p..] starts with the characters of lit
StartsWith(s, p, lit) ==
    /\ p + Len(lit) - 1 <= Len(s)
    /\ \A k \in 1..Len(lit) : s[p + k - 1] = lit[k]

RECURSIVE SkipSpaces(_, _)
\* the position after \s* matched greedily from p
SkipSpaces(s, p) == IF p <= Len(s) /\ IsSpace(s[p]) THEN SkipSpaces(s, p + 1) ELSE p

RECURSIVE DigitsEnd(_, _)
\* the last position of the run of \d that starts at p (p - 1 when there is none)
DigitsEnd(s, p) == IF p <= Len(s) /\ IsDigit(s[p]) THEN DigitsEnd(s, p + 1) ELSE p - 1

\* None
None == -1

\* the least position in 1..Len(s) satisfying M, or 0
FirstPos(s, M(_)) ==
    LET S == {p \in 1..Len(s) : M(p)}
    IN IF S = {} THEN 0 ELSE CHOOSE p \in S : \A r \in S : p <= r

\* ------------------------------------------- scrape_reviews.py: rating

\* re.search(r"([0-9])(\.0)?\b", norm): a match starts at p
RatingMatchA(norm, p) ==
    /\ IsAsciiDigit(norm[p])
    /\ \/ StartsWith(norm, p + 1, <<".", "0">>) /\ Boundary(norm, p + 2)
       \/ Boundary(norm, p)

\* scrape_reviews.py parse_rating_from_text
parse_rating_from_text_sr(s) ==
    IF s = <<>> THEN None
    ELSE LET norm == Normalize(s)
             M(p) == RatingMatchA(norm, p)
             p0 == FirstPos(norm, M)
         IN IF p0 = 0 THEN None ELSE DigitVal(norm[p0])

\* ------------------------------------------------- scrape.py: rating

\* s.strip()
RECURSIVE Strip(_)
Strip(s) ==
    IF s = <<>> THEN s
    ELSE IF IsSpace(s[1]) THEN Strip(Tail(s))
    ELSE IF IsSpace(s[Len(s)]) THEN Strip(SubSeq(s, 1, Len(s) - 1))
    ELSE s

\* re.search(r"(\d+)\s*/\s*5", s): a match starts at p
SlashFiveMatch(s, p) ==
    /\ IsDigit(s[p])
    /\ LET q == SkipSpaces(s, DigitsEnd(s, p) + 1)
       IN /\ q <= Len(s) /\ s[q] = "/"
          /\ LET r == SkipSpaces(s, q + 1) IN r <= Len(s) /\ s[r] = "5"

\* re.search(r"Rating of\s*(\d+)", s, re.IGNORECASE): a match starts at p
RatingOfMatch(s, p) ==
    /\ s[p] = "Rating of"
    /\ LET q == SkipSpaces(s, p + 1) IN q <= Len(s) /\ IsDigit(s[q])

\* re.search(r"(\d+)(\.0)?\b", norm): a match starts at p. \d+ is greedy and
\* gives digits back: the group may end at any e in p..DigitsEnd, the longest
\* that lets the rest match.
DigitsMatchEnds(norm, p) ==
    {e \in p..DigitsEnd(norm, p) :
        \/ StartsWith(norm, e + 1, <<".", "0">>) /\ Boundary(norm, e + 2)
        \/ Boundary(norm, e)}

DigitsMatch(norm, p) == IsDigit(norm[p]) /\ DigitsMatchEnds(norm, p) # {}

\* the greatest element of a non-empty set of integers
SetMax(S) == CHOOSE x \in S : \A y \in S : y <= x

\* scrape.py parse_rating_from_text
parse_rating_from_text(s0) ==
    IF s0 = <<>> THEN None
    ELSE LET s == Strip(s0)
             M1(p) == SlashFiveMatch(s, p)
             p1 == FirstPos(s, M1)
             M2(p) == RatingOfMatch(s, p)
             p2 == FirstPos(s, M2)
             norm == Normalize(s)
             M3(p) == DigitsMatch(norm, p)
             p3 == FirstPos(norm, M3)
         IN IF p1 # 0 THEN IntOf(s, p1, DigitsEnd(s, p1))
            ELSE IF p2 # 0
                 THEN LET q == SkipSpaces(s, p2 + 1) IN IntOf(s, q, DigitsEnd(s, q))
            ELSE IF p3 # 0 THEN IntOf(norm, p3, SetMax(DigitsMatchEnds(norm, p3)))
            ELSE None

\* ---------------------------------------- scrape_google_maps.py: rating

\* re.search(r"Rated (\d) stars", aria): a match starts at p
RatedStarsMatch(aria, p) ==
    /\ aria[p] = "Rated "
    /\ p + 2 <= Len(aria)
    /\ IsDigit(aria[p + 1])
    /\ aria[p + 2] = " stars"

\* int(m.group(1)) if m else None
parse_rated_stars(aria) ==
    LET M(p) == RatedStarsMatch(aria, p)
        p0 == FirstPos(aria, M)
    IN IF p0 = 0 THEN None ELSE DigitVal(aria[p0 + 1])

\* rating or 0
OrZero(rating) == IF rating = None \/ rating = 0 THEN 0 ELSE rating

\* ------------------------------------------------------------ review text

\* A text is a run-length encoded string: a sequence of runs [c, n], n >= 1
\* copies of c, adjacent runs of different c. "a", "b" are ASCII letters, "N" a
\* non-ASCII character, " " whitespace, "O" the marker "(Original)" and "T" the
\* marker "(Translated by Google)".
CharWidth(c) == IF c = "O" THEN 10 ELSE IF c = "T" THEN 22 ELSE 1

RECURSIVE TextLen(_)
\* len(text)
TextLen(t) == IF t = <<>> THEN 0 ELSE t[1].n * CharWidth(t[1].c) + TextLen(Tail(t))

RECURSIVE Take(_, _)
\* text[:k]; a marker cut by the slice leaves its first characters, ASCII ("p")
Take(t, k) ==
    IF t = <<>> \/ k <= 0 THEN <<>>
    ELSE LET w == CharWidth(t[1].c)
             full == t[1].n * w
         IN IF full <= k THEN <<t[1]>> \o Take(Tail(t), k - full)
            ELSE IF w = 1 THEN <<[c |-> t[1].c, n |-> k]>>
            ELSE (IF k \div w > 0 THEN <<[c |-> t[1].c, n |-> k \div w]>> ELSE <<>>)
                 \o (IF k % w > 0 THEN <<[c |-> "p", n |-> k % w]>> ELSE <<>>)

\* review_text[:160]
Snippet(t) == Take(t, SnippetLen)

\* ------------------------------------------------------------ item blocks

\* A block of a snapshot, by what the extractors read of it:
\*   rid    the data-review-id attribute ("" when the block has none)
\*   cls    the block's class among jftiEf, hjmQqc, VjjEkf ("" when none)
\*   author the text of the author element (NoTag when there is no element)
\*   aria   the aria-label of the role=img element (<<>> when there is none)
\*   span   the text of the rating span (<<>> when there is none)
\*   scan   the text nodes of the block that hold a digit, in document order
\*   text   the text of the review text element (<<>> when there is none)
\*   raises reading the block raises
NoTag == "<no tag>"

TextA == <<[c |-> "a", n |-> 12]>>
TextB == <<[c |-> "b", n |-> 12]>>
TextShort == <<[c |-> "a", n |-> 5]>>
TextMixed == <<[c |-> "N", n |-> 9], [c |-> " ", n |-> 1], [c |-> "a", n |-> 2]>>

Block(rid, author, aria, text) ==
    [rid |-> rid, cls |-> "jftiEf", author |-> author, aria |-> aria,
     span |-> <<>>, scan |-> <<>>, text |-> text, raises |-> FALSE]

\* The blocks a feed's page renders, in document order: a review, the nested
\* element carrying the same data-review-id, a review whose text is too short,
\* a second review, and a mostly non-English review.
SiteBlocks ==
    << Block("r1", "Ann", <<"5", " stars">>, TextA),
       Block("r1", "Ann", <<"5", " stars">>, TextA),
       Block("r2", NoTag, <<>>, TextShort),
       Block("r3", "Bob", <<"4", " stars">>, TextB),
       Block("r4", "Cy", <<"ar3", " stars">>, TextMixed) >>

\* page.content(): the first n blocks are rendered
Snapshot(n) == SubSeq(SiteBlocks, 1, n)

\* ------------------------------------- scrape_reviews.py: the extractor

\* The same without the check of seen_texts (lines 140-144 left out).
ExtractBlockSR_NoSeenCheck(st, b) ==
    IF st.stop \/ b.rid = "" THEN st
    ELSE IF b.raises THEN st
    ELSE IF b.text = <<>> \/ TextLen(b.text) < MinTextLen THEN st
    ELSE LET rec == [author |-> IF b.author = NoTag THEN "Unknown" ELSE b.author,
                     rating |-> OrZero(parse_rating_from_text_sr(b.aria)),
                     text |-> b.text]
             revs == Append(st.reviews, rec)
         IN [reviews |-> revs,
             seen_texts |-> st.seen_texts \cup {Snippet(b.text)},
             stop |-> Len(revs) >= MAX_REVIEWS_PER_BRANCH]

\* The same with the try around the loop: a raise ends the loop.
ExtractBlockSR_RaiseEndsLoop(st, b) ==
    IF st.stop \/ b.rid = "" THEN st
    ELSE IF b.raises THEN [st EXCEPT !.stop = TRUE]
    ELSE IF b.text = <<>> \/ TextLen(b.text) < MinTextLen THEN st
    ELSE IF Snippet(b.text) \in st.seen_texts THEN st
    ELSE LET rec == [author |-> IF b.author = NoTag THEN "Unknown" ELSE b.author,
                     rating |-> OrZero(parse_rating_from_text_sr(b.aria)),
                     text |-> b.text]
             revs == Append(st.reviews, rec)
         IN [reviews |-> revs,
             seen_texts |-> st.seen_texts \cup {Snippet(b.text)},
             stop |-> Len(revs) >= MAX_REVIEWS_PER_BRANCH]

\* The same without the break on the target (lines 153-154 left out).
ExtractBlockSR_NoBreak(st, b) ==
    IF b.rid = "" THEN st
    ELSE IF b.raises THEN st
    ELSE IF b.text = <<>> \/ TextLen(b.text) < MinTextLen THEN st
    ELSE IF Snippet(b.text) \in st.seen_texts THEN st
    ELSE LET rec == [author |-> IF b.author = NoTag THEN "Unknown" ELSE b.author,
                     rating |-> OrZero(parse_rating_from_text_sr(b.aria)),
                     text |-> b.text]
             revs == Append(st.reviews, rec)
         IN [reviews |-> revs,
             seen_texts |-> st.seen_texts \cup {Snippet(b.text)},
             stop |-> FALSE]

\* One block of the loop of _extract_reviews_from_html (scrape_reviews.py):
\* the state [reviews, seen_texts, stop] after block b.
ExtractBlockSR(st, b) ==
    IF st.stop \/ b.rid = "" THEN st
    ELSE IF b.raises THEN st
    ELSE IF b.text = <<>> \/ TextLen(b.text) < MinTextLen THEN st
    ELSE IF Snippet(b.text) \in st.seen_texts THEN st
    ELSE LET rec == [author |-> IF b.author = NoTag THEN "Unknown" ELSE b.author,
                     rating |-> OrZero(parse_rating_from_text_sr(b.aria)),
                     text |-> b.text]
             revs == Append(st.reviews, rec)
         IN [reviews |-> revs,
             seen_texts |-> st.seen_texts \cup {Snippet(b.text)},
             stop |-> Len(revs) >= MAX_REVIEWS_PER_BRANCH]

RECURSIVE ExtractLoopSR(_, _)
ExtractLoopSR(st, blocks) ==
    IF blocks = <<>> THEN st
    ELSE ExtractLoopSR(ExtractBlockSR(st, blocks[1]), Tail(blocks))

\* scrape_reviews.py _extract_reviews_from_html
extract_reviews_sr(blocks) ==
    ExtractLoopSR([reviews |-> <<>>, seen_texts |-> {}, stop |-> FALSE], blocks).reviews

\* -------------------------------------------- scrape.py: the extractor

\* the blocks the selector chain finds (lines 141-149): the first strategy
\* that matches any
SelectBlocks(blocks) ==
    LET S1 == SelectSeq(blocks, LAMBDA b : b.rid # "")
        S1b == SelectSeq(blocks, LAMBDA b : b.cls = "jftiEf")
        S2 == SelectSeq(blocks, LAMBDA b : b.cls = "hjmQqc")
        S3 == SelectSeq(blocks, LAMBDA b : b.cls = "VjjEkf")
    IN IF S1 # <<>> THEN S1 ELSE IF S1b # <<>> THEN S1b
       ELSE IF S2 # <<>> THEN S2 ELSE S3

\* re.compile(r".*\d.*") matches the label
HasDigit(s) == \E k \in 1..Len(s) : IsDigit(s[k])

\* any(str(n) in txt for n in range(1, 6))
HasOneToFive(s) == \E k \in 1..Len(s) : s[k] \in {"1", "2", "3", "4", "5"}

\* the texts a block's rating is parsed from, in the order they are tried
\* (lines 181-204): the aria-label holding a digit, the rating span, the
\* stripped text nodes holding one of 1..5
RatingTexts(b) ==
    (IF HasDigit(b.aria) THEN <<[kind |-> "label", txt |-> b.aria]>> ELSE <<>>)
    \o (IF b.span # <<>> THEN <<[kind |-> "span", txt |-> b.span]>> ELSE <<>>)
    \o [k \in 1..Len(SelectSeq(b.scan, LAMBDA t : HasOneToFive(Strip(t)))) |->
          [kind |-> "scan",
           txt |-> Strip(SelectSeq(b.scan, LAMBDA t : HasOneToFive(Strip(t)))[k])]]

RECURSIVE FirstRating(_, _)
\* rating after the texts are tried in turn: the label and the span are
\* final when they parse to anything but None, a scanned text when it parses
\* to a truthy value; a later parse overwrites an earlier one
FirstRating(texts, rating) ==
    IF texts = <<>> THEN rating
    ELSE LET r == parse_rating_from_text(texts[1].txt)
         IN IF r # None /\ (texts[1].kind # "scan" \/ r # 0) THEN r
            ELSE FirstRating(Tail(texts), r)

\* the rating of a block (lines 181-204)
BlockRating(b) == OrZero(FirstRating(RatingTexts(b), None))

\* review_id or fallback_id (lines 263-273)
ReviewId(b, author) ==
    IF b.rid # "" THEN <<"id", b.rid>>
    ELSE <<"snippet", Snippet(b.text), author>>

\* One block of the loop of _extract_reviews_from_html (scrape.py).
ExtractBlock(st, b) ==
    IF st.stop \/ b.raises THEN st
    ELSE IF b.text = <<>> \/ TextLen(b.text) < MinTextLen THEN st
    ELSE LET author == IF b.author \in {NoTag, ""} THEN "Unknown" ELSE b.author
             id == ReviewId(b, author)
         IN IF id \in st.seen_texts THEN st
            ELSE LET rec == [review_id |-> id, author |-> author,
                             rating |-> BlockRating(b), text |-> b.text]
                     revs == Append(st.reviews, rec)
                 IN [reviews |-> revs,
                     seen_texts |-> st.seen_texts \cup {id},
                     stop |-> Len(revs) >= MAX_REVIEWS_PER_BRANCH]

RECURSIVE ExtractLoop(_, _)
ExtractLoop(st, blocks) ==
    IF blocks = <<>> THEN st
    ELSE ExtractLoop(ExtractBlock(st, blocks[1]), Tail(blocks))

\* scrape.py _extract_reviews_from_html
extract_reviews(blocks) ==
    ExtractLoop([reviews |-> <<>>, seen_texts |-> {}, stop |-> FALSE],
                SelectBlocks(blocks)).reviews

\* ------------------------------------- scrape.py: _cleanup_keep_english

RECURSIVE CutAtMarker(_)
\* txt[:txt.find('(Original)')] when the marker is present
CutAtMarker(t) ==
    IF t = <<>> \/ t[1].c = "O" THEN <<>> ELSE <<t[1]>> \o CutAtMarker(Tail(t))

\* what the three re.sub calls turn into whitespace: the translation marker,
\* non-ASCII characters, whitespace
Blank(c) == c \in {"T", "N", " "}

RECURSIVE Collapse(_)
\* every run of blanks becomes one space
Collapse(t) ==
    IF t = <<>> THEN <<>>
    ELSE IF Blank(t[1].c)
         THEN IF Len(t) > 1 /\ Blank(t[2].c) THEN Collapse(Tail(t))
              ELSE <<[c |-> " ", n |-> 1]>> \o Collapse(Tail(t))
    ELSE <<t[1]>> \o Collapse(Tail(t))

\* .strip() of a collapsed text
StripText(t) ==
    LET t1 == IF t # <<>> /\ t[1].c = " " THEN Tail(t) ELSE t
    IN IF t1 # <<>> /\ t1[Len(t1)].c = " " THEN SubSeq(t1, 1, Len(t1) - 1) ELSE t1

\* _cleanup_keep_english(raw_text)
cleanup_keep_english(raw) ==
    IF raw = <<>> THEN raw ELSE StripText(Collapse(CutAtMarker(raw)))

RECURSIVE EnglishReviews(_)
\* the cleaning loop (lines 1070-1113): each review with its text cleaned,
\* kept when the cleaned text is not empty, whatever language was detected
EnglishReviews(new_reviews) ==
    IF new_reviews = <<>> THEN <<>>
    ELSE LET cleaned == cleanup_keep_english(new_reviews[1].text)
         IN (IF cleaned = <<>> THEN <<>>
             ELSE <<[new_reviews[1] EXCEPT !.text = cleaned]>>)
            \o EnglishReviews(Tail(new_reviews))

\* ================================================================ state

VARIABLES
    prog,                  \* which program runs: "urls", "url", "rating", "text"
    place_list,            \* the input feeds, a sequence of urls
    idx,                   \* the position in place_list of the feed in progress
    pc,                    \* the statement the program is at
    results,               \* scrape_reviews.py: results
    page,                  \* the page the variable `page` refers to (index in pages)
    pages,                 \* every page created: "open" or "closed"
    previous_height,
    stagnant_loops,
    total_attempts,
    current_review_count,
    elapsed,               \* time.time() - start_time, seconds, capped past the ceiling
    reviews_tbl,           \* the reviews table: a sequence of committed rows
    faults,                \* failures injected so far
    handed,                \* history: the batches handed to persistence, [i, batch]
    flagged,               \* history: feeds a snapshot of which the detector flagged
    extracted,             \* history: feeds whose snapshot the extractor was run on
    loop_exit,             \* history: how the feed's scroll loop was left ("none": not yet)
    still,                 \* history: the last measurements in a row that found the height unchanged
    iterations,            \* history: the scroll commands of the loop so far
    loop_hist,             \* history: whether the iteration before tried an expansion; what the loop's last count step read
    cmd,                   \* history: the page command the last step issued
    html,                  \* scrape.py: the snapshot held by `html`: whether the
                           \* detector flags it and where it was taken; its blocks
                           \* are drawn when it is parsed (it is parsed once)
    last_review_count,
    no_new_reviews_count,  \* capped at NoNewSort (only compared with it)
    modal_seen_ids,
    modal_no_new,
    modal_rounds,
    seen_live_ids,
    no_new_rounds,
    rounds,
    accum,                 \* the accumulated records, in insertion order
    extra,                 \* aggressive snapshot rounds completed
    csv,                   \* the rows of the CSV file
    result,                \* scrape.py: the returned record (NoResult: not yet)
    input,                 \* the label or the text a function is applied to
    output,                \* what the function made of it
    calls,                 \* the upsert calls made so far
    branches_tbl,          \* the branches table: the url of each committed row
    sessions               \* the state of each database session that is open

vars == <<prog, place_list, idx, pc, results, page, pages, previous_height,
          stagnant_loops, total_attempts, current_review_count, elapsed,
          reviews_tbl, faults, handed, flagged, extracted, loop_exit, still,
          iterations, loop_hist, cmd,
          html, last_review_count, no_new_reviews_count, modal_seen_ids,
          modal_no_new, modal_rounds, seen_live_ids,
          no_new_rounds, rounds, accum, extra, csv, result, input, output,
          calls, branches_tbl, sessions>>

\* the variables of the runs of single functions
fnVars == <<input, output>>

\* the variables of the runs of the sink alone
sinkVars == <<calls, branches_tbl, sessions>>

\* the variables only scrape.py uses
urlVars == <<html, last_review_count, no_new_reviews_count, modal_seen_ids,
             modal_no_new, modal_rounds, seen_live_ids,
             no_new_rounds, rounds, accum, extra, csv, result>>

\* ------------------------------------------------------ the environment

\* _is_captcha_page(page.content()) for a feed: feed "A" serves the
\* anti-automation interstitial on every snapshot, "B" never does, "C" may on
\* any snapshot.
SiteFlags(url) == IF url = "A" THEN {TRUE} ELSE IF url = "B" THEN {FALSE} ELSE BOOLEAN

\* The input lists of a run.
PlaceLists ==
    { <<"C">>, <<"A", "B">>, <<"B", "A">>, <<"B", "B">> }

\* An adapter or sink call may fail while failures are left to inject.
CanFault == faults < MaxFaults

\* An operation on a closed page raises (playwright: target closed).
PageOpen == pages[page] = "open"

\* The least wait of one scroll iteration, seconds
\* (page.wait_for_timeout(2000 + random.randint(0, 1000))).
ScrollWaitMin == 2

\* elapsed after an iteration's waits: the least wait, or any longer delay
\* (every value past the ceiling behaves as timeout_seconds + 1).
Waited(e) == { IF e + ScrollWaitMin > timeout_seconds THEN timeout_seconds + 1
               ELSE e + ScrollWaitMin,
               timeout_seconds + 1 }

\* ------------------------------------------- scrape_reviews.py: the sink

\* _upsert_branch_and_reviews, committed: the rows added for the reviews not
\* already stored for the branch (the check reads the committed rows only:
\* the session does not autoflush).
NewRows(tbl, url, reviews) ==
    LET fresh == { k \in 1..Len(reviews) :
                     ~\E j \in 1..Len(tbl) :
                        tbl[j].url = url /\ tbl[j].text = reviews[k].text }
        F[k \in 0..Len(reviews)] ==
            IF k = 0 THEN <<>>
            ELSE IF k \in fresh
                 THEN Append(F[k - 1], [url |-> url, author |-> reviews[k].author,
                                        rating |-> reviews[k].rating,
                                        text |-> reviews[k].text])
                 ELSE F[k - 1]
    IN F[Len(reviews)]

upsert_branch_and_reviews(tbl, url, reviews) == tbl \o NewRows(tbl, url, reviews)

\* ------------------------------- scrape_reviews.py: the multi-feed run

Url == place_list[idx]

Rec(skipped, reason, found) ==
    [i |-> idx, url |-> Url, skipped |-> skipped, reason |-> reason, found |-> found]

\* the while condition of the scroll loop
LoopGuard(s, a) == s < max_stagnant_loops /\ a < max_total_attempts

\* `if stagnant_loops % 3 == 0:` under the comment "every few loops"
ExpandEvery == 3

\* nothing is remembered of a scroll loop
NoHist == [expanded |-> FALSE, count |-> 0, late |-> FALSE]

\* the loop's history at the end of an iteration whose last command was c
Expanded(c) == [NoHist EXCEPT !.expanded = (c = "scroll+expand")]

\* for place in place_list: the next feed, or the end of the run. The loop's
\* locals are dead until they are assigned again.
NextFeed ==
    /\ loop_hist' = NoHist
    /\ idx' = idx + 1
    /\ pc' = IF idx + 1 > Len(place_list) THEN "done" ELSE "goto"
    /\ previous_height' = 0
    /\ stagnant_loops' = 0
    /\ total_attempts' = 0
    /\ current_review_count' = 0
    /\ elapsed' = 0
    /\ loop_exit' = "none"
    /\ still' = 0
    /\ iterations' = 0
    /\ cmd' = "none"

\* The scroll loop is left: by break or by its condition to the wait after it
\* ("afterloop"), by a raise to the finally clause ("finally"). The loop's
\* locals are not read again.
LeaveLoopAt(to, why, hist) ==
    /\ loop_hist' = hist
    /\ pc' = to
    /\ loop_exit' = why
    /\ still' = 0
    /\ iterations' = 0
    /\ previous_height' = 0
    /\ stagnant_loops' = 0
    /\ total_attempts' = 0
    /\ current_review_count' = 0
    /\ elapsed' = 0

\* a raise inside the loop, or the while condition found false
LeaveLoop(to, why) == LeaveLoopAt(to, why, NoHist)

\* the break of the count step: the count it read and whether the time was up
LeaveAtCount(to, why, n, e, limit) ==
    LeaveLoopAt(to, why, [expanded |-> FALSE, count |-> n, late |-> e > limit])

LoopVarsUnchanged ==
    /\ UNCHANGED <<previous_height, stagnant_loops, total_attempts,
                   current_review_count, elapsed, loop_exit,
                   still, iterations, loop_hist>>
    /\ cmd' = "none"

HistUnchanged == UNCHANGED <<handed, flagged, extracted>>

\* a step that issues no scroll or expand command and is not the loop's exit
Quiet == cmd' = "none" /\ UNCHANGED <<loop_exit, still, iterations, loop_hist>>

\* except PlaywrightTimeoutError / except Exception of the feed's try:
\* one skipped record, then the next feed.
OuterExcept(kind, res) ==
    /\ results' = Append(res, Rec(TRUE, kind, 0))
    /\ NextFeed

FaultKinds == {"timeout", "error"}

\* page.goto(url); page.wait_for_timeout(...)
U_Goto ==
    /\ prog = "urls" /\ pc = "goto"
    /\ UNCHANGED fnVars /\ UNCHANGED sinkVars
    /\ UNCHANGED urlVars
    /\ UNCHANGED <<prog, place_list, page, pages, reviews_tbl>>
    /\ HistUnchanged
    /\ \/ /\ PageOpen
          /\ pc' = "content"
          /\ UNCHANGED <<idx, results, faults>>
          /\ LoopVarsUnchanged
       \/ /\ PageOpen /\ CanFault
          /\ faults' = faults + 1
          /\ \E k \in FaultKinds : OuterExcept(k, results)
       \/ /\ ~PageOpen
          /\ UNCHANGED faults
          /\ OuterExcept("error", results)

\* html = page.content(); if _is_captcha_page(html): ... continue
U_Content ==
    /\ prog = "urls" /\ pc = "content"
    /\ UNCHANGED fnVars /\ UNCHANGED sinkVars
    /\ UNCHANGED urlVars
    /\ UNCHANGED <<prog, place_list, page, pages, reviews_tbl, handed, extracted>>
    /\ \/ /\ CanFault
          /\ faults' = faults + 1
          /\ UNCHANGED flagged
          /\ OuterExcept("error", results)
       \/ /\ UNCHANGED faults
          /\ \E f \in SiteFlags(Url) :
               IF f
               THEN /\ flagged' = flagged \cup {idx}
                    /\ results' = Append(results, Rec(TRUE, "captcha", 0))
                    /\ NextFeed
               ELSE /\ pc' = "click"
                    /\ UNCHANGED <<idx, results, flagged>>
                    /\ LoopVarsUnchanged

\* the "All reviews" clicks: every failure is caught
U_Click ==
    /\ prog = "urls" /\ pc \in {"click", "click2"}
    /\ UNCHANGED fnVars /\ UNCHANGED sinkVars
    /\ UNCHANGED urlVars
    /\ pc' = IF pc = "click" THEN "newpage" ELSE "loopinit"
    /\ \/ UNCHANGED faults
       \/ CanFault /\ faults' = faults + 1
    /\ UNCHANGED <<prog, place_list, idx, results, page, pages, reviews_tbl>>
    /\ LoopVarsUnchanged /\ HistUnchanged

\* page = context.new_page(); page.goto(url); wait_for_load_state; wait
U_NewPage ==
    /\ prog = "urls" /\ pc = "newpage"
    /\ UNCHANGED fnVars /\ UNCHANGED sinkVars
    /\ UNCHANGED urlVars
    /\ pages' = Append(pages, "open")
    /\ page' = Len(pages) + 1
    /\ UNCHANGED <<prog, place_list, reviews_tbl>>
    /\ HistUnchanged
    /\ \/ /\ pc' = "content2"
          /\ UNCHANGED <<idx, results, faults>>
          /\ LoopVarsUnchanged
       \/ /\ CanFault
          /\ faults' = faults + 1
          /\ \E k \in FaultKinds : OuterExcept(k, results)

\* html = page.content(); if _is_captcha_page(html): ... page.close(); continue
U_Content2 ==
    /\ prog = "urls" /\ pc = "content2"
    /\ UNCHANGED fnVars /\ UNCHANGED sinkVars
    /\ UNCHANGED urlVars
    /\ UNCHANGED <<prog, place_list, page, reviews_tbl, handed, extracted>>
    /\ \/ /\ CanFault
          /\ faults' = faults + 1
          /\ UNCHANGED <<flagged, pages>>
          /\ OuterExcept("error", results)
       \/ \E f \in SiteFlags(Url) :
               IF f
               THEN /\ flagged' = flagged \cup {idx}
                    /\ results' = Append(results, Rec(TRUE, "captcha", 0))
                    /\ pc' = "close"
                    /\ UNCHANGED <<idx, pages, faults>>
                    /\ LoopVarsUnchanged
               ELSE /\ pc' = "click2"
                    /\ UNCHANGED <<idx, results, flagged, pages, faults>>
                    /\ LoopVarsUnchanged

\* previous_height = 0 ... start_time = time.time()
U_LoopInit ==
    /\ prog = "urls" /\ pc = "loopinit"
    /\ UNCHANGED fnVars /\ UNCHANGED sinkVars
    /\ UNCHANGED urlVars
    /\ previous_height' = 0
    /\ stagnant_loops' = 0
    /\ total_attempts' = 0
    /\ elapsed' = 0
    /\ pc' = "count"
    /\ UNCHANGED <<prog, place_list, idx, results, page, pages,
                   current_review_count, reviews_tbl, faults>>
    /\ HistUnchanged /\ Quiet


\* The same with total_attempts left as it was (line 397 left out).
AfterMeasure_AttemptNotCounted(h, prev, s, a, crc) ==
    LET s1 == IF h = prev THEN s + 1 ELSE 0
        p1 == IF h = prev THEN prev ELSE h
        s2 == IF s1 >= max_stagnant_loops /\ crc < FewReviews THEN 0 ELSE s1
    IN [previous_height |-> p1, stagnant_loops |-> s2, total_attempts |-> a]

\* The same with the attempts starting over when the height changed.
AfterMeasure_AttemptsStartOver(h, prev, s, a, crc) ==
    LET s1 == IF h = prev THEN s + 1 ELSE 0
        a1 == IF h = prev THEN a + 1 ELSE 0
        p1 == IF h = prev THEN prev ELSE h
        s2 == IF s1 >= max_stagnant_loops /\ crc < FewReviews THEN 0 ELSE s1
    IN [previous_height |-> p1, stagnant_loops |-> s2, total_attempts |-> a1]

\* One pass of lines 395-405: the counters after the height h was measured.
AfterMeasure(h, prev, s, a, crc) ==
    LET s1 == IF h = prev THEN s + 1 ELSE 0
        a1 == IF h = prev THEN a + 1 ELSE a
        p1 == IF h = prev THEN prev ELSE h
        s2 == IF s1 >= max_stagnant_loops /\ crc < FewReviews THEN 0 ELSE s1
    IN [previous_height |-> p1, stagnant_loops |-> s2, total_attempts |-> a1]

\* The same with the timeout looked at before the target.
AfterCount_TimeoutFirst(n, e) ==
    IF e > timeout_seconds THEN "timeout"
    ELSE IF n >= MAX_REVIEWS_PER_BRANCH THEN "target"
    ELSE "scroll"

\* What follows the read of the count (lines 352-359): break on the target,
\* break on the timeout, else scroll.
AfterCount(n, e) ==
    IF n >= MAX_REVIEWS_PER_BRANCH THEN "target"
    ELSE IF e > timeout_seconds THEN "timeout"
    ELSE "scroll"

\* Why the while condition fails (line 348).
GuardExit(s, a) == IF s >= max_stagnant_loops THEN "stagnation" ELSE "attempts"

\* current_review_count = page.evaluate(...); the target and timeout checks.
\* A raise leaves the loop through `except Exception` (line 410).
U_Count ==
    /\ prog = "urls" /\ pc = "count"
    /\ UNCHANGED fnVars /\ UNCHANGED sinkVars
    /\ UNCHANGED urlVars
    /\ cmd' = "none"
    /\ UNCHANGED <<prog, place_list, idx, results, page, pages, reviews_tbl>>
    /\ HistUnchanged
    /\ \/ /\ CanFault
          /\ faults' = faults + 1
          /\ LeaveLoop("finally", "error")
       \/ /\ UNCHANGED faults
          /\ \E n \in 0..Len(SiteBlocks) :
               IF AfterCount(n, elapsed) = "scroll"
               THEN /\ current_review_count' = n
                    /\ pc' = "scroll"
                    /\ UNCHANGED <<previous_height, stagnant_loops, total_attempts,
                                   elapsed, loop_exit, still, iterations,
                                   loop_hist>>
               ELSE LeaveAtCount("afterloop", AfterCount(n, elapsed), n,
                                 elapsed, timeout_seconds)

\* page.evaluate(scroll_script); page.wait_for_timeout(...); every third
\* stagnant loop the "More" buttons are clicked, failures caught.
U_Scroll ==
    /\ prog = "urls" /\ pc = "scroll"
    /\ UNCHANGED fnVars /\ UNCHANGED sinkVars
    /\ UNCHANGED urlVars
    /\ UNCHANGED <<prog, place_list, idx, results, page, pages, reviews_tbl>>
    /\ HistUnchanged
    /\ \/ /\ CanFault
          /\ faults' = faults + 1
          /\ cmd' = "none"
          /\ LeaveLoop("finally", "error")
       \/ /\ \E e \in Waited(elapsed) : elapsed' = e
          /\ pc' = "measure"
          /\ UNCHANGED <<previous_height, stagnant_loops, total_attempts,
                         current_review_count, loop_exit, still>>
          /\ iterations' = iterations + 1
          /\ loop_hist' = NoHist
          /\ IF stagnant_loops % ExpandEvery = 0
             THEN /\ cmd' = "scroll+expand"
                  /\ \/ UNCHANGED faults
                     \/ CanFault /\ faults' = faults + 1
             ELSE /\ cmd' = "scroll"
                  /\ UNCHANGED faults

\* current_height = page.evaluate(...); the stagnation bookkeeping; the
\* while condition.
U_Measure ==
    /\ prog = "urls" /\ pc = "measure"
    /\ UNCHANGED fnVars /\ UNCHANGED sinkVars
    /\ UNCHANGED urlVars
    /\ cmd' = "none"
    /\ UNCHANGED <<prog, place_list, idx, results, page, pages, reviews_tbl>>
    /\ HistUnchanged
    /\ \/ /\ CanFault
          /\ faults' = faults + 1
          /\ LeaveLoop("finally", "error")
       \/ /\ UNCHANGED faults
          /\ \E h \in 0..MaxHeight :
               LET r == AfterMeasure(h, previous_height, stagnant_loops,
                                     total_attempts, current_review_count)
               IN IF LoopGuard(r.stagnant_loops, r.total_attempts)
                  THEN /\ previous_height' = r.previous_height
                       /\ stagnant_loops' = r.stagnant_loops
                       /\ total_attempts' = r.total_attempts
                       /\ pc' = "count"
                       /\ still' = IF h = previous_height THEN still + 1 ELSE 0
                       /\ loop_hist' = Expanded(cmd)
                       /\ UNCHANGED <<current_review_count, elapsed, loop_exit,
                                      iterations>>
                  ELSE LeaveLoop("afterloop",
                                 GuardExit(r.stagnant_loops, r.total_attempts))

\* page.wait_for_timeout(3000 + ...) after the loop; a raise is caught (410)
U_AfterLoop ==
    /\ prog = "urls" /\ pc = "afterloop"
    /\ UNCHANGED fnVars /\ UNCHANGED sinkVars
    /\ UNCHANGED urlVars
    /\ pc' = "finally"
    /\ \/ UNCHANGED faults
       \/ CanFault /\ faults' = faults + 1
    /\ UNCHANGED <<prog, place_list, idx, results, page, pages, reviews_tbl>>
    /\ UNCHANGED <<previous_height, stagnant_loops, total_attempts,
                   current_review_count, elapsed, loop_exit, still, iterations>>
    /\ cmd' = "none"
    /\ loop_hist' = NoHist
    /\ HistUnchanged

\* finally: html = page.content() raises: the feed's except clause
U_FinallyContentFails ==
    /\ prog = "urls" /\ pc = "finally"
    /\ UNCHANGED fnVars /\ UNCHANGED sinkVars
    /\ UNCHANGED urlVars
    /\ CanFault
    /\ faults' = faults + 1
    /\ OuterExcept("error", results)
    /\ UNCHANGED <<prog, place_list, page, pages, reviews_tbl>>
    /\ HistUnchanged

\* The same without the `continue` of line 420: the flagged snapshot goes on
\* to the extractor and the sink.
U_FinallyBlocked_FallsThrough ==
    /\ prog = "urls" /\ pc = "finally"
    /\ UNCHANGED fnVars /\ UNCHANGED sinkVars
    /\ UNCHANGED urlVars
    /\ TRUE \in SiteFlags(Url)
    /\ flagged' = flagged \cup {idx}
    /\ \E n \in 0..Len(SiteBlocks) :
         LET reviews == extract_reviews_sr(Snapshot(n))
         IN /\ extracted' = extracted \cup {idx}
            /\ handed' = Append(handed, [i |-> idx, batch |-> reviews])
            /\ reviews_tbl' = upsert_branch_and_reviews(reviews_tbl, Url, reviews)
            /\ results' = Append(Append(results, Rec(TRUE, "captcha_after_scroll", 0)),
                                 Rec(FALSE, "", Len(reviews)))
    /\ pc' = "close"
    /\ UNCHANGED <<prog, place_list, idx, page, pages, faults>>
    /\ LoopVarsUnchanged

\* finally: the snapshot is flagged: a record, then page.close()
U_FinallyBlocked ==
    /\ prog = "urls" /\ pc = "finally"
    /\ UNCHANGED fnVars /\ UNCHANGED sinkVars
    /\ UNCHANGED urlVars
    /\ TRUE \in SiteFlags(Url)
    /\ flagged' = flagged \cup {idx}
    /\ results' = Append(results, Rec(TRUE, "captcha_after_scroll", 0))
    /\ pc' = "close"
    /\ UNCHANGED <<prog, place_list, idx, page, pages, reviews_tbl, faults,
                   handed, extracted>>
    /\ LoopVarsUnchanged

\* The same with a failure of the save that is not caught in
\* _upsert_branch_and_reviews: it reaches the feed's except clause.
U_FinallyHarvest_SaveRaises ==
    /\ prog = "urls" /\ pc = "finally"
    /\ UNCHANGED fnVars /\ UNCHANGED sinkVars
    /\ UNCHANGED urlVars
    /\ FALSE \in SiteFlags(Url)
    /\ UNCHANGED <<prog, place_list, page, pages, flagged>>
    /\ \E n \in 0..Len(SiteBlocks) :
         LET reviews == extract_reviews_sr(Snapshot(n))
         IN /\ extracted' = extracted \cup {idx}
            /\ handed' = Append(handed, [i |-> idx, batch |-> reviews])
            /\ \/ /\ reviews_tbl' = upsert_branch_and_reviews(reviews_tbl, Url, reviews)
                  /\ UNCHANGED <<faults, idx>>
                  /\ results' = Append(results, Rec(FALSE, "", Len(reviews)))
                  /\ pc' = "close"
                  /\ LoopVarsUnchanged
               \/ /\ CanFault
                  /\ faults' = faults + 1
                  /\ UNCHANGED reviews_tbl
                  /\ OuterExcept("error", results)

\* The same with a loop that timed out treated as a failed feed: a skipped
\* record, nothing extracted or saved.
U_FinallyHarvest_TimeoutSkips ==
    /\ prog = "urls" /\ pc = "finally"
    /\ UNCHANGED fnVars /\ UNCHANGED sinkVars
    /\ UNCHANGED urlVars
    /\ FALSE \in SiteFlags(Url)
    /\ \E n \in 0..Len(SiteBlocks) :
         LET reviews == extract_reviews_sr(Snapshot(n))
         IN IF loop_exit = "timeout"
            THEN /\ results' = Append(results, Rec(TRUE, "timeout", 0))
                 /\ UNCHANGED <<extracted, handed, reviews_tbl, faults>>
            ELSE /\ extracted' = extracted \cup {idx}
                 /\ handed' = Append(handed, [i |-> idx, batch |-> reviews])
                 /\ reviews_tbl' = upsert_branch_and_reviews(reviews_tbl, Url, reviews)
                 /\ UNCHANGED faults
                 /\ results' = Append(results, Rec(FALSE, "", Len(reviews)))
    /\ pc' = "close"
    /\ UNCHANGED <<prog, place_list, idx, page, pages, flagged>>
    /\ LoopVarsUnchanged

\* finally: reviews = _extract_reviews_from_html(html);
\* _upsert_branch_and_reviews(name, url, reviews); results.append(...).
\* A failure of the save is caught inside it and rolled back.
U_FinallyHarvest ==
    /\ prog = "urls" /\ pc = "finally"
    /\ UNCHANGED fnVars /\ UNCHANGED sinkVars
    /\ UNCHANGED urlVars
    /\ FALSE \in SiteFlags(Url)
    /\ \E n \in 0..Len(SiteBlocks) :
         LET reviews == extract_reviews_sr(Snapshot(n))
         IN /\ extracted' = extracted \cup {idx}
            /\ handed' = Append(handed, [i |-> idx, batch |-> reviews])
            /\ \/ /\ reviews_tbl' = upsert_branch_and_reviews(reviews_tbl, Url, reviews)
                  /\ UNCHANGED faults
               \/ /\ CanFault
                  /\ faults' = faults + 1
                  /\ UNCHANGED reviews_tbl
            /\ results' = Append(results, Rec(FALSE, "", Len(reviews)))
    /\ pc' = "close"
    /\ UNCHANGED <<prog, place_list, idx, page, pages, flagged>>
    /\ LoopVarsUnchanged

\* page.close() after the feed's record was appended (lines 297, 419, 427):
\* when it raises, the feed's except clause appends a second record.
U_Close ==
    /\ prog = "urls" /\ pc = "close"
    /\ UNCHANGED fnVars /\ UNCHANGED sinkVars
    /\ UNCHANGED urlVars
    /\ UNCHANGED <<prog, place_list, page, reviews_tbl>>
    /\ HistUnchanged
    /\ \/ /\ pages' = [pages EXCEPT ![page] = "closed"]
          /\ UNCHANGED <<results, faults>>
          /\ NextFeed
       \/ /\ CanFault
          /\ faults' = faults + 1
          /\ \E st \in {"open", "closed"} : pages' = [pages EXCEPT ![page] = st]
          /\ \E k \in FaultKinds : OuterExcept(k, results)

\* no sink call is made apart from the program's own
SinkIdle == calls = 0 /\ branches_tbl = <<>> /\ sessions = <<>>

\* scrape.py: the returned record
Result(skipped, reason, found, new, reviews) ==
    [skipped |-> skipped, reason |-> reason, found |-> found, new |-> new,
     reviews |-> reviews]

\* no record is returned yet
NoResult == Result(FALSE, "<none>", 0, 0, <<>>)

\* nothing was computed yet
NoOutput == [by |-> "none", rating |-> 0, texts |-> <<>>]

InitUrls ==
    /\ prog = "urls"
    /\ place_list \in PlaceLists
    /\ idx = 1
    /\ pc = "goto"
    /\ results = <<>>
    /\ page = 1
    /\ pages = <<"open">>
    /\ previous_height = 0
    /\ stagnant_loops = 0
    /\ total_attempts = 0
    /\ current_review_count = 0
    /\ elapsed = 0
    /\ reviews_tbl = <<>>
    /\ faults = 0
    /\ handed = <<>>
    /\ flagged = {}
    /\ extracted = {}
    /\ loop_exit = "none"
    /\ still = 0
    /\ iterations = 0
    /\ loop_hist = NoHist
    /\ cmd = "none"
    /\ html = [flag |-> FALSE, at |-> "none"]
    /\ last_review_count = 0
    /\ no_new_reviews_count = 0
    /\ modal_seen_ids = {}
    /\ modal_no_new = 0
    /\ modal_rounds = 0
    /\ seen_live_ids = {}
    /\ no_new_rounds = 0
    /\ rounds = 0
    /\ accum = <<>>
    /\ extra = 0
    /\ csv = <<>>
    /\ result = NoResult
    /\ input = <<>>
    /\ output = NoOutput
    /\ SinkIdle

NextUrls ==
    \/ U_Goto \/ U_Content \/ U_Click \/ U_NewPage \/ U_Content2 \/ U_LoopInit
    \/ U_Count \/ U_Scroll \/ U_Measure \/ U_AfterLoop
    \/ U_FinallyContentFails \/ U_FinallyBlocked \/ U_FinallyHarvest \/ U_Close

SpecUrls == InitUrls /\ [][NextUrls]_vars
\* ======================================================================
\* scrape.py: scrape_reviews_from_place_url(name, url), one session
\* ======================================================================

max_total_attempts_url == MAX_RETRIES * 2

\* the while condition of the scroll loop (line 767)
LoopGuardUrl(s, a) == s < max_stagnant_loops_url /\ a < max_total_attempts_url

GuardExitUrl(s, a) == IF s >= max_stagnant_loops_url THEN "stagnation" ELSE "attempts"

\* time.time() - start_time after a wait of at least SCROLL_PAUSE_TIME
\* seconds; everything past the ceiling is one value
WaitedUrl(e) == { IF e + SCROLL_PAUSE_TIME > timeout_seconds_url
                  THEN timeout_seconds_url + 1
                  ELSE e + SCROLL_PAUSE_TIME,
                  timeout_seconds_url + 1 }

\* the ids the page reports when its first n blocks are rendered: the
\* data-review-id of each item, in document order (items.map, line 931)
LiveIds(n) == [k \in 1..n |-> Snapshot(n)[k].rid]

\* new_ids = [i for i in ids if i and i not in seen] (lines 732, 958): the
\* seen set is not touched while the list is built
NewIds(ids, seen) == SelectSeq(ids, LAMBDA i : i # "" /\ i \notin seen)

\* the elements of a list
Elems(ids) == { ids[k] : k \in 1..Len(ids) }

\* the scroll loop's locals are not read after the loop
LeaveLoopUrl(to, why) ==
    /\ LeaveLoop(to, why)
    /\ last_review_count' = 0
    /\ no_new_reviews_count' = 0

\* the variables a session step of scrape.py never touches
SessionFixed == UNCHANGED <<prog, place_list, idx, results, page, reviews_tbl>>

MainLoopUnchanged ==
    UNCHANGED <<previous_height, stagnant_loops, total_attempts,
                current_review_count, elapsed, loop_exit, still, iterations,
                loop_hist, last_review_count, no_new_reviews_count>>

ModalUnchanged == UNCHANGED <<modal_seen_ids, modal_no_new, modal_rounds>>

LiveUnchanged == UNCHANGED <<seen_live_ids, no_new_rounds, rounds>>

AggrUnchanged == UNCHANGED <<accum, extra>>

\* except PlaywrightTimeoutError / except Exception of the session (1140-1145)
SessionExcept(kind) ==
    /\ result' = Result(TRUE, kind, 0, 0, <<>>)
    /\ pc' = "closing"

\* page.goto(url, ...); the load-state waits; page.wait_for_timeout(3000)
S_Goto ==
    /\ prog = "url" /\ pc = "goto"
    /\ UNCHANGED fnVars /\ UNCHANGED sinkVars
    /\ SessionFixed /\ HistUnchanged /\ MainLoopUnchanged /\ ModalUnchanged
    /\ LiveUnchanged /\ AggrUnchanged
    /\ UNCHANGED <<pages, html, csv>>
    /\ cmd' = "none"
    /\ \/ /\ pc' = "content"
          /\ UNCHANGED <<faults, result>>
       \/ /\ CanFault
          /\ faults' = faults + 1
          /\ \E k \in FaultKinds : SessionExcept(k)

\* html = page.content(); the detector (lines 375-378)
S_Content ==
    /\ prog = "url" /\ pc = "content"
    /\ UNCHANGED fnVars /\ UNCHANGED sinkVars
    /\ SessionFixed /\ MainLoopUnchanged /\ ModalUnchanged
    /\ LiveUnchanged /\ AggrUnchanged
    /\ UNCHANGED <<pages, csv, handed, extracted>>
    /\ cmd' = "none"
    /\ \/ /\ CanFault
          /\ faults' = faults + 1
          /\ \E k \in FaultKinds : SessionExcept(k)
          /\ UNCHANGED <<html, flagged>>
       \/ /\ UNCHANGED faults
          /\ \E f \in SiteFlags(Url) :
               /\ html' = [flag |-> f, at |-> "nav"]
               /\ IF f
                  THEN /\ flagged' = flagged \cup {idx}
                       /\ result' = Result(TRUE, "captcha", 0, 0, <<>>)
                       /\ pc' = "closing"
                  ELSE /\ pc' = "panel"
                       /\ UNCHANGED <<flagged, result>>

\* the wait for the reviews panel (lines 381-423): when no review is found
\* the main container is scrolled once. Every raise is caught (line 421).
S_Panel ==
    /\ prog = "url" /\ pc = "panel"
    /\ UNCHANGED fnVars /\ UNCHANGED sinkVars
    /\ SessionFixed /\ HistUnchanged /\ MainLoopUnchanged /\ ModalUnchanged
    /\ LiveUnchanged /\ AggrUnchanged
    /\ UNCHANGED <<pages, html, csv, result>>
    /\ pc' = "loopinit"
    /\ \/ UNCHANGED faults
       \/ CanFault /\ faults' = faults + 1
    /\ \E review_count \in 0..1 :
         cmd' = IF review_count > 0 THEN "none" ELSE "scroll"

\* lines 429-437, and the attempts to open the reviews dialog (488-561),
\* every raise of which is caught
S_LoopInit ==
    /\ prog = "url" /\ pc = "loopinit"
    /\ UNCHANGED fnVars /\ UNCHANGED sinkVars
    /\ SessionFixed /\ HistUnchanged /\ LiveUnchanged /\ AggrUnchanged
    /\ UNCHANGED <<pages, html, csv, result, faults>>
    /\ previous_height' = 0
    /\ stagnant_loops' = 0
    /\ total_attempts' = 0
    /\ current_review_count' = 0
    /\ elapsed' = 0
    /\ last_review_count' = 0
    /\ no_new_reviews_count' = 0
    /\ loop_exit' = "none"
    /\ still' = 0
    /\ iterations' = 0
    /\ loop_hist' = NoHist
    /\ cmd' = "none"
    /\ modal_seen_ids' = {}
    /\ modal_no_new' = 0
    /\ modal_rounds' = 0
    /\ \E modal_open \in BOOLEAN : pc' = IF modal_open THEN "modal" ELSE "count"

\* the dialog's loop is left (by break, by its condition, by a raise caught
\* at line 764): its locals are not read again
LeaveModal ==
    /\ pc' = "count"
    /\ modal_seen_ids' = {}
    /\ modal_no_new' = 0
    /\ modal_rounds' = 0

\* one round of the dialog's loop (lines 588-750): expand, read the ids and
\* scroll the dialog (a raise gives ids = []), the two breaks, the wait
S_ModalRound ==
    /\ prog = "url" /\ pc = "modal"
    /\ UNCHANGED fnVars /\ UNCHANGED sinkVars
    /\ SessionFixed /\ HistUnchanged /\ LiveUnchanged /\ AggrUnchanged
    /\ UNCHANGED <<pages, html, csv, result>>
    /\ UNCHANGED <<previous_height, stagnant_loops, total_attempts,
                   current_review_count, loop_exit, still, iterations,
                   loop_hist, last_review_count, no_new_reviews_count>>
    /\ IF modal_rounds >= max_modal_rounds
       THEN /\ LeaveModal
            /\ cmd' = "none"
            /\ UNCHANGED <<faults, elapsed>>
       ELSE /\ cmd' = "scroll+expand"
            /\ \E ids \in { LiveIds(n) : n \in 0..Len(SiteBlocks) } :
                 LET new_ids == NewIds(ids, modal_seen_ids)
                     seen == modal_seen_ids \cup Elems(new_ids)
                     no_new == IF new_ids # <<>> THEN 0 ELSE modal_no_new + 1
                 IN IF Cardinality(seen) >= MAX_REVIEWS_PER_BRANCH
                       \/ no_new >= max_modal_no_new
                    THEN /\ LeaveModal
                         /\ UNCHANGED <<faults, elapsed>>
                    ELSE \/ /\ modal_seen_ids' = seen
                            /\ modal_no_new' = no_new
                            /\ modal_rounds' = modal_rounds + 1
                            /\ \E e \in WaitedUrl(elapsed) : elapsed' = e
                            /\ UNCHANGED <<pc, faults>>
                         \/ /\ CanFault
                            /\ faults' = faults + 1
                            /\ LeaveModal
                            /\ UNCHANGED elapsed

\* lines 870-879: the stagnation bookkeeping of one iteration
AfterMeasureUrl(h, prev, s, a, crc) ==
    LET s1 == IF h = prev THEN s + 1 ELSE 0
        a1 == IF h = prev THEN a + 1 ELSE a
        p1 == IF h = prev THEN prev ELSE h
        s2 == IF s1 >= max_stagnant_loops_url /\ crc < FewReviews THEN 0 ELSE s1
    IN [previous_height |-> p1, stagnant_loops |-> s2, total_attempts |-> a1]

\* lines 784-790: break on the target, break on the timeout, else scroll
AfterCountUrl(n, e) ==
    IF n >= MAX_REVIEWS_PER_BRANCH THEN "target"
    ELSE IF e > timeout_seconds_url THEN "timeout"
    ELSE "scroll"

\* lines 778-782, no_new_reviews_count kept up to NoNewSort
NoNewAfter(n, last, nn) ==
    IF n > last THEN 0 ELSE IF nn >= NoNewSort THEN NoNewSort ELSE nn + 1

\* current_review_count = page.evaluate(...) (769); the new-reviews
\* bookkeeping; the target and timeout checks. A raise leaves the loop
\* through `except Exception` (line 884).
S_Count ==
    /\ prog = "url" /\ pc = "count"
    /\ UNCHANGED fnVars /\ UNCHANGED sinkVars
    /\ SessionFixed /\ HistUnchanged /\ ModalUnchanged /\ LiveUnchanged
    /\ AggrUnchanged
    /\ UNCHANGED <<pages, html, csv, result>>
    /\ cmd' = "none"
    /\ \/ /\ CanFault
          /\ faults' = faults + 1
          /\ LeaveLoopUrl("finally", "error")
       \/ /\ UNCHANGED faults
          /\ \E n \in 0..Len(SiteBlocks) :
               IF AfterCountUrl(n, elapsed) = "scroll"
               THEN /\ current_review_count' = n
                    /\ last_review_count' =
                         IF n > last_review_count THEN n ELSE last_review_count
                    /\ no_new_reviews_count' =
                         NoNewAfter(n, last_review_count, no_new_reviews_count)
                    /\ pc' = "scroll"
                    /\ UNCHANGED <<previous_height, stagnant_loops, total_attempts,
                                   elapsed, loop_exit, still, iterations,
                                   loop_hist>>
               ELSE /\ LeaveAtCount("afterloop", AfterCountUrl(n, elapsed), n,
                                    elapsed, timeout_seconds_url)
                    /\ last_review_count' = 0
                    /\ no_new_reviews_count' = 0

\* the scroll, tried up to three times with its raises caught (797-805);
\* page.wait_for_timeout(scroll_wait) (807), whose raise leaves the loop;
\* the expansion on an even count and the sort after NoNewSort rounds
\* without new reviews, raises caught (810-858)
S_Scroll ==
    /\ prog = "url" /\ pc = "scroll"
    /\ UNCHANGED fnVars /\ UNCHANGED sinkVars
    /\ SessionFixed /\ HistUnchanged /\ ModalUnchanged /\ LiveUnchanged
    /\ AggrUnchanged
    /\ UNCHANGED <<pages, html, csv, result>>
    /\ \/ /\ CanFault
          /\ faults' = faults + 1
          /\ cmd' = "scroll"
          /\ LeaveLoopUrl("finally", "error")
       \/ /\ \E e \in WaitedUrl(elapsed) : elapsed' = e
          /\ pc' = "measure"
          /\ cmd' = IF current_review_count % 2 = 0 THEN "scroll+expand"
                    ELSE "scroll"
          /\ \/ UNCHANGED faults
             \/ CanFault /\ faults' = faults + 1
          /\ \E sorted \in BOOLEAN :
               no_new_reviews_count' =
                   IF no_new_reviews_count >= NoNewSort /\ sorted THEN 0
                   ELSE no_new_reviews_count
          /\ UNCHANGED <<previous_height, stagnant_loops, total_attempts,
                         current_review_count, loop_exit, last_review_count,
                         still>>
          /\ iterations' = iterations + 1
          /\ loop_hist' = NoHist

\* current_height = page.evaluate(...) (860); lines 870-879; the while
\* condition
S_Measure ==
    /\ prog = "url" /\ pc = "measure"
    /\ UNCHANGED fnVars /\ UNCHANGED sinkVars
    /\ SessionFixed /\ HistUnchanged /\ ModalUnchanged /\ LiveUnchanged
    /\ AggrUnchanged
    /\ UNCHANGED <<pages, html, csv, result>>
    /\ cmd' = "none"
    /\ \/ /\ CanFault
          /\ faults' = faults + 1
          /\ LeaveLoopUrl("finally", "error")
       \/ /\ UNCHANGED faults
          /\ \E h \in 0..MaxHeight :
               LET r == AfterMeasureUrl(h, previous_height, stagnant_loops,
                                        total_attempts, current_review_count)
               IN IF LoopGuardUrl(r.stagnant_loops, r.total_attempts)
                  THEN /\ previous_height' = r.previous_height
                       /\ stagnant_loops' = r.stagnant_loops
                       /\ total_attempts' = r.total_attempts
                       /\ pc' = "count"
                       /\ still' = IF h = previous_height THEN still + 1 ELSE 0
                       /\ loop_hist' = Expanded(cmd)
                       /\ UNCHANGED <<current_review_count, elapsed, loop_exit,
                                      iterations,
                                      last_review_count, no_new_reviews_count>>
                  ELSE LeaveLoopUrl("afterloop",
                                    GuardExitUrl(r.stagnant_loops, r.total_attempts))

\* page.wait_for_timeout(3000 + ...) after the loop (881); a raise is caught
S_AfterLoop ==
    /\ prog = "url" /\ pc = "afterloop"
    /\ UNCHANGED fnVars /\ UNCHANGED sinkVars
    /\ SessionFixed /\ HistUnchanged /\ ModalUnchanged
    /\ LiveUnchanged /\ AggrUnchanged
    /\ UNCHANGED <<previous_height, stagnant_loops, total_attempts,
                   current_review_count, elapsed, loop_exit, still, iterations,
                   last_review_count, no_new_reviews_count>>
    /\ loop_hist' = NoHist
    /\ UNCHANGED <<pages, html, csv, result>>
    /\ cmd' = "none"
    /\ pc' = "finally"
    /\ \/ UNCHANGED faults
       \/ CanFault /\ faults' = faults + 1

\* finally (887-911): the snapshot is taken again, a raise is caught and
\* leaves `html` as it was; the detector; the locals of the live rounds
S_Finally ==
    /\ prog = "url" /\ pc = "finally"
    /\ UNCHANGED fnVars /\ UNCHANGED sinkVars
    /\ SessionFixed /\ MainLoopUnchanged /\ ModalUnchanged /\ AggrUnchanged
    /\ UNCHANGED <<pages, csv, handed, extracted>>
    /\ cmd' = "none"
    /\ \E snap \in { [flag |-> f, at |-> "post"] : f \in SiteFlags(Url) }
                   \cup {html} :
         /\ html' = snap
         /\ IF snap = html
            THEN CanFault /\ faults' = faults + 1
            ELSE UNCHANGED faults
         /\ IF snap.flag
            THEN /\ flagged' = flagged \cup {idx}
                 /\ result' = Result(TRUE, "captcha_after_scroll", 0, 0, <<>>)
                 /\ pc' = "closing"
                 /\ LiveUnchanged
            ELSE /\ pc' = "live"
                 /\ seen_live_ids' = {}
                 /\ no_new_rounds' = 0
                 /\ rounds' = 0
                 /\ UNCHANGED <<flagged, result>>

\* the live rounds are left with the set seen: the counters are not read
\* again, and the set is the session's seen set until accum replaces it
\* (line 990), which a raise skips
LeaveLive(to, seen) ==
    /\ pc' = to
    /\ seen_live_ids' = IF to = "liveend" THEN seen ELSE {}
    /\ no_new_rounds' = 0
    /\ rounds' = 0

\* The same without the break on max_no_new_rounds.
S_LiveRound_NoPatienceLimit ==
    /\ prog = "url" /\ pc = "live"
    /\ UNCHANGED fnVars /\ UNCHANGED sinkVars
    /\ SessionFixed /\ HistUnchanged /\ MainLoopUnchanged /\ ModalUnchanged
    /\ AggrUnchanged
    /\ UNCHANGED <<pages, html, csv, result>>
    /\ IF rounds >= max_rounds
       THEN /\ LeaveLive("liveend", seen_live_ids)
            /\ cmd' = "none"
            /\ UNCHANGED faults
       ELSE /\ cmd' = "scroll"
            /\ \E ids \in { LiveIds(n) : n \in 0..Len(SiteBlocks) } :
                 LET new_ids == NewIds(ids, seen_live_ids)
                     seen == seen_live_ids \cup Elems(new_ids)
                     no_new == IF new_ids # <<>> THEN 0 ELSE no_new_rounds + 1
                 IN IF Cardinality(seen) >= MAX_REVIEWS_PER_BRANCH
                    THEN /\ LeaveLive("liveend", seen)
                         /\ UNCHANGED faults
                    ELSE \/ /\ seen_live_ids' = seen
                            /\ no_new_rounds' = no_new
                            /\ rounds' = rounds + 1
                            /\ UNCHANGED <<pc, faults>>
                         \/ /\ CanFault
                            /\ faults' = faults + 1
                            /\ LeaveLive("extract", seen)

\* one live scroll round (950-977): read the ids and scroll to the bottom
\* (a raise gives ids = []), the two breaks, the wait, whose raise is caught
\* at line 1031
S_LiveRound ==
    /\ prog = "url" /\ pc = "live"
    /\ UNCHANGED fnVars /\ UNCHANGED sinkVars
    /\ SessionFixed /\ HistUnchanged /\ MainLoopUnchanged /\ ModalUnchanged
    /\ AggrUnchanged
    /\ UNCHANGED <<pages, html, csv, result>>
    /\ IF rounds >= max_rounds
       THEN /\ LeaveLive("liveend", seen_live_ids)
            /\ cmd' = "none"
            /\ UNCHANGED faults
       ELSE /\ cmd' = "scroll"
            /\ \E ids \in { LiveIds(n) : n \in 0..Len(SiteBlocks) } :
                 LET new_ids == NewIds(ids, seen_live_ids)
                     seen == seen_live_ids \cup Elems(new_ids)
                     no_new == IF new_ids # <<>> THEN 0 ELSE no_new_rounds + 1
                 IN IF Cardinality(seen) >= MAX_REVIEWS_PER_BRANCH
                       \/ no_new >= max_no_new_rounds
                    THEN /\ LeaveLive("liveend", seen)
                         /\ UNCHANGED faults
                    ELSE \/ /\ seen_live_ids' = seen
                            /\ no_new_rounds' = no_new
                            /\ rounds' = rounds + 1
                            /\ UNCHANGED <<pc, faults>>
                         \/ /\ CanFault
                            /\ faults' = faults + 1
                            /\ LeaveLive("extract", seen)

\* html = page.content() after the live rounds (982), not shown to the
\* detector; accum = {} (990). A raise is caught at line 1031.
S_LiveEnd ==
    /\ prog = "url" /\ pc = "liveend"
    /\ UNCHANGED fnVars /\ UNCHANGED sinkVars
    /\ SessionFixed /\ HistUnchanged /\ MainLoopUnchanged /\ ModalUnchanged
    /\ UNCHANGED <<pages, csv, result, no_new_rounds, rounds>>
    /\ cmd' = "none"
    /\ seen_live_ids' = {}
    /\ accum' = <<>>
    /\ extra' = 0
    /\ \/ /\ CanFault
          /\ faults' = faults + 1
          /\ pc' = "extract"
          /\ UNCHANGED html
       \/ /\ UNCHANGED faults
          /\ pc' = "aggr"
          /\ \E f \in SiteFlags(Url) : html' = [flag |-> f, at |-> "live"]

RECURSIVE AccumAdd(_, _)
\* for r in extracted: if rid and rid not in accum: accum[rid] = r
AccumAdd(acc, extr) ==
    IF extr = <<>> THEN acc
    ELSE IF \E k \in 1..Len(acc) : acc[k].review_id = extr[1].review_id
         THEN AccumAdd(acc, Tail(extr))
         ELSE AccumAdd(Append(acc, extr[1]), Tail(extr))

\* one aggressive snapshot round (992-1019): a snapshot is extracted into
\* accum, the break on the target, the scroll and the End key (raises
\* caught), the wait. A raise of page.content() or of the wait is caught at
\* line 1028.
S_AggrRound ==
    /\ prog = "url" /\ pc = "aggr"
    /\ UNCHANGED fnVars /\ UNCHANGED sinkVars
    /\ SessionFixed /\ MainLoopUnchanged /\ ModalUnchanged
    /\ UNCHANGED <<handed, flagged>>
    /\ LiveUnchanged
    /\ UNCHANGED <<pages, html, csv, result>>
    /\ \/ /\ CanFault
          /\ faults' = faults + 1
          /\ pc' = "extract"
          /\ cmd' = "none"
          /\ accum' = <<>>
          /\ extra' = 0
          /\ UNCHANGED extracted
       \/ /\ UNCHANGED faults
          /\ \E n \in 0..Len(SiteBlocks) :
               LET acc == AccumAdd(accum, extract_reviews(Snapshot(n)))
               IN /\ accum' = acc
                  /\ extracted' = extracted \cup {idx}
                  /\ IF Len(acc) >= MAX_REVIEWS_PER_BRANCH
                     THEN /\ pc' = "aggrend"
                          /\ cmd' = "none"
                          /\ extra' = 0
                     ELSE /\ cmd' = "scroll"
                          /\ extra' = IF extra + 1 >= extra_rounds THEN 0
                                      ELSE extra + 1
                          /\ pc' = IF extra + 1 >= extra_rounds THEN "aggrend"
                                   ELSE "aggr"

\* if accum: html = page.content() (1022-1025), not shown to the detector;
\* accum is left as it is and not read again
S_AggrEnd ==
    /\ prog = "url" /\ pc = "aggrend"
    /\ UNCHANGED fnVars /\ UNCHANGED sinkVars
    /\ SessionFixed /\ HistUnchanged /\ MainLoopUnchanged /\ ModalUnchanged
    /\ LiveUnchanged
    /\ UNCHANGED <<pages, csv, result, extra>>
    /\ cmd' = "none"
    /\ pc' = "extract"
    /\ UNCHANGED accum
    /\ IF accum = <<>>
       THEN UNCHANGED <<html, faults>>
       ELSE \/ /\ CanFault
               /\ faults' = faults + 1
               /\ UNCHANGED html
            \/ /\ UNCHANGED faults
               /\ \E f \in SiteFlags(Url) : html' = [flag |-> f, at |-> "aggr"]

\* review['text'] = cleaned, for every review of the list (1072-1113)
CleanedAll(new_reviews) ==
    [k \in 1..Len(new_reviews) |->
        [new_reviews[k] EXCEPT !.text = cleanup_keep_english(new_reviews[k].text)]]

\* reviews = _extract_reviews_from_html(html) (1035); the cleaned reviews
\* are written to the CSV file, which is overwritten (1042-1131), a raise
\* of the write is caught; all_reviews, found_count, saved_count (1134-1138)
S_Extract ==
    /\ prog = "url" /\ pc = "extract"
    /\ UNCHANGED fnVars /\ UNCHANGED sinkVars
    /\ SessionFixed /\ MainLoopUnchanged /\ ModalUnchanged /\ LiveUnchanged
    /\ accum' = <<>>
    /\ UNCHANGED extra
    /\ UNCHANGED <<pages, html, flagged>>
    /\ cmd' = "none"
    /\ pc' = "closing"
    /\ extracted' = extracted \cup {idx}
    /\ \E n \in 0..Len(SiteBlocks) :
         LET reviews == extract_reviews(Snapshot(n))
         IN IF reviews = <<>>
            THEN /\ result' = Result(FALSE, "", 0, 0, <<>>)
                 /\ UNCHANGED <<csv, handed, faults>>
            ELSE /\ result' = Result(FALSE, "", Len(reviews), Len(reviews),
                                     CleanedAll(reviews))
                 /\ \/ /\ csv' = EnglishReviews(reviews)
                       /\ handed' = Append(handed,
                              [i |-> idx, batch |-> EnglishReviews(reviews)])
                       /\ UNCHANGED faults
                    \/ /\ CanFault
                       /\ faults' = faults + 1
                       /\ UNCHANGED <<csv, handed>>

\* finally: page.close(); context.close(); browser.close(), raises caught
\* (1146-1152); the return
S_Close ==
    /\ prog = "url" /\ pc = "closing"
    /\ UNCHANGED fnVars /\ UNCHANGED sinkVars
    /\ SessionFixed /\ HistUnchanged /\ MainLoopUnchanged /\ ModalUnchanged
    /\ LiveUnchanged /\ AggrUnchanged
    /\ UNCHANGED <<html, csv, result>>
    /\ cmd' = "none"
    /\ pc' = "done"
    /\ \/ /\ pages' = [pages EXCEPT ![page] = "closed"]
          /\ UNCHANGED faults
       \/ /\ CanFault
          /\ faults' = faults + 1
          /\ UNCHANGED pages

InitUrl ==
    /\ prog = "url"
    /\ place_list \in { <<"A">>, <<"C">> }
    /\ idx = 1
    /\ pc = "goto"
    /\ results = <<>>
    /\ page = 1
    /\ pages = <<"open">>
    /\ previous_height = 0
    /\ stagnant_loops = 0
    /\ total_attempts = 0
    /\ current_review_count = 0
    /\ elapsed = 0
    /\ reviews_tbl = <<>>
    /\ faults = 0
    /\ handed = <<>>
    /\ flagged = {}
    /\ extracted = {}
    /\ loop_exit = "none"
    /\ still = 0
    /\ iterations = 0
    /\ loop_hist = NoHist
    /\ cmd = "none"
    /\ html = [flag |-> FALSE, at |-> "none"]
    /\ last_review_count = 0
    /\ no_new_reviews_count = 0
    /\ modal_seen_ids = {}
    /\ modal_no_new = 0
    /\ modal_rounds = 0
    /\ seen_live_ids = {}
    /\ no_new_rounds = 0
    /\ rounds = 0
    /\ accum = <<>>
    /\ extra = 0
    /\ csv = <<>>
    /\ result = NoResult
    /\ input = <<>>
    /\ output = NoOutput
    /\ SinkIdle

NextUrl ==
    \/ S_Goto \/ S_Content \/ S_Panel \/ S_LoopInit \/ S_ModalRound
    \/ S_Count \/ S_Scroll \/ S_Measure \/ S_AfterLoop \/ S_Finally
    \/ S_LiveRound \/ S_LiveEnd \/ S_AggrRound \/ S_AggrEnd \/ S_Extract
    \/ S_Close

SpecUrl == InitUrl /\ [][NextUrl]_vars

\* ======================================================================
\* scrape_google_maps.py: parse_reviews_from_place_html, save_places_to_db
\* ======================================================================

\* a div of a place page, by what the parser reads of it
MapsDiv(aria, text) == [aria |-> aria, text |-> text]

\* text[:2000]
MaxMapsText == 2000

\* review_divs[:10]
MaxMapsDivs == 10

\* len(t) > 50 of the fallback
MinFallbackLen == 50

\* "Rated" in tag.get("aria-label", "")
HasRated(aria) == \E k \in 1..Len(aria) : aria[k] = "Rated "

\* parse_reviews_from_place_html(html): the labelled divs, or else the divs
\* with a long string; the first ten; no threshold on the text
parse_reviews_from_place_html(divs) ==
    LET labelled == SelectSeq(divs, LAMBDA d : d.aria # <<>> /\ HasRated(d.aria))
        review_divs == IF labelled # <<>> THEN labelled
                       ELSE SelectSeq(divs, LAMBDA d : TextLen(d.text) > MinFallbackLen)
        first == SubSeq(review_divs, 1,
                        IF Len(review_divs) < MaxMapsDivs THEN Len(review_divs)
                        ELSE MaxMapsDivs)
    IN [k \in 1..Len(first) |->
          [author |-> "Unknown",
           rating |-> OrZero(parse_rated_stars(first[k].aria)),
           text |-> Take(first[k].text, MaxMapsText)]]

\* save_places_to_db for one place, committed: a row for each review whose
\* text is not stored for the branch (the session does not autoflush: rows
\* added in this call are not seen by the check)
save_places_to_db(tbl, url, reviews) == tbl \o NewRows(tbl, url, reviews)

\* ======================================================================
\* one rating label through each parser
\* ======================================================================

\* the characters of the labels tried
LabelChars == {"0", "3", "5", "9", "ar7", ".", "/", " ", "x",
               "Rated ", " stars", "Rating of"}

RECURSIVE SeqsUpTo(_, _)
\* the sequences over S of length at most n
SeqsUpTo(S, n) ==
    IF n = 0 THEN {<<>>}
    ELSE LET shorter == SeqsUpTo(S, n - 1)
         IN shorter \cup { Append(q, c) : q \in shorter, c \in S }

Labels == SeqsUpTo(LabelChars, MaxLabelLen)

\* every variable but pc and output
restVars == <<prog, place_list, idx, results, page, pages, previous_height,
              stagnant_loops, total_attempts, current_review_count, elapsed,
              reviews_tbl, faults, handed, flagged, extracted, loop_exit, still,
              iterations, loop_hist, cmd,
              html, last_review_count, no_new_reviews_count, modal_seen_ids,
              modal_no_new, modal_rounds, seen_live_ids, no_new_rounds,
              rounds, accum, extra, csv, result, input,
              calls, branches_tbl, sessions>>

\* the rating of the only record, None when there is no record
OnlyRating(reviews) == IF reviews = <<>> THEN None ELSE reviews[1].rating

Rated(by, rating) == [by |-> by, rating |-> rating, texts |-> <<>>]

\* scrape_reviews.py: a block whose span role=img carries the label
R_ExtractSR ==
    /\ prog = "rating" /\ pc = "call"
    /\ pc' = "done"
    /\ output' = Rated("scrape_reviews",
           OnlyRating(extract_reviews_sr(<<Block("r1", "Ann", input, TextA)>>)))
    /\ UNCHANGED restVars

\* scrape.py: a block whose role=img element carries the label
R_ExtractLabel ==
    /\ prog = "rating" /\ pc = "call"
    /\ pc' = "done"
    /\ output' = Rated("scrape.label",
           OnlyRating(extract_reviews(<<Block("r1", "Ann", input, TextA)>>)))
    /\ UNCHANGED restVars

\* scrape.py: a block whose rating span holds the label as text
R_ExtractSpan ==
    /\ prog = "rating" /\ pc = "call"
    /\ pc' = "done"
    /\ output' = Rated("scrape.span",
           OnlyRating(extract_reviews(
               <<[Block("r1", "Ann", <<>>, TextA) EXCEPT !.span = input]>>)))
    /\ UNCHANGED restVars

\* scrape.py: a block with the label in a text node found by the number scan
R_ExtractScan ==
    /\ prog = "rating" /\ pc = "call"
    /\ pc' = "done"
    /\ output' = Rated("scrape.scan",
           OnlyRating(extract_reviews(
               <<[Block("r1", "Ann", <<>>, TextA) EXCEPT
                    !.scan = IF HasDigit(input) THEN <<input>> ELSE <<>>]>>)))
    /\ UNCHANGED restVars

\* scrape_google_maps.py: a div whose aria-label is the label
R_Maps ==
    /\ prog = "rating" /\ pc = "call"
    /\ pc' = "done"
    /\ output' = Rated("scrape_google_maps",
           OnlyRating(parse_reviews_from_place_html(<<MapsDiv(input, TextA)>>)))
    /\ UNCHANGED restVars

InitFn(p, inputs) ==
    /\ prog = p
    /\ input \in inputs
    /\ output = NoOutput
    /\ pc = "call"
    /\ place_list = <<"B">>
    /\ idx = 1
    /\ results = <<>>
    /\ page = 1
    /\ pages = <<"open">>
    /\ previous_height = 0
    /\ stagnant_loops = 0
    /\ total_attempts = 0
    /\ current_review_count = 0
    /\ elapsed = 0
    /\ reviews_tbl = <<>>
    /\ faults = 0
    /\ handed = <<>>
    /\ flagged = {}
    /\ extracted = {}
    /\ loop_exit = "none"
    /\ still = 0
    /\ iterations = 0
    /\ loop_hist = NoHist
    /\ cmd = "none"
    /\ html = [flag |-> FALSE, at |-> "none"]
    /\ last_review_count = 0
    /\ no_new_reviews_count = 0
    /\ modal_seen_ids = {}
    /\ modal_no_new = 0
    /\ modal_rounds = 0
    /\ seen_live_ids = {}
    /\ no_new_rounds = 0
    /\ rounds = 0
    /\ accum = <<>>
    /\ extra = 0
    /\ csv = <<>>
    /\ result = NoResult

InitRating == InitFn("rating", Labels) /\ SinkIdle

NextRating ==
    \/ R_ExtractSR \/ R_ExtractLabel \/ R_ExtractSpan \/ R_ExtractScan \/ R_Maps

SpecRating == InitRating /\ [][NextRating]_vars

\* ======================================================================
\* one review text through each extractor and its sink
\* ======================================================================

\* the characters of the texts tried, and the lengths of their runs
TextChars == {"a", "N", " ", "O", "T"}

RunLens == {1, 4, 9, 10}

Runs == { [c |-> c, n |-> n] : c \in TextChars, n \in RunLens }

\* what get_text(strip=True) can return: no whitespace at either end,
\* adjacent runs of different characters
Texts ==
    { t \in SeqsUpTo(Runs, MaxRuns) :
        /\ t # <<>> => t[1].c # " " /\ t[Len(t)].c # " "
        /\ \A k \in 1..(Len(t) - 1) : t[k].c # t[k + 1].c }

RowTexts(rows) == [k \in 1..Len(rows) |-> rows[k].text]

Written(by, rows) == [by |-> by, rating |-> 0, texts |-> RowTexts(rows)]

\* scrape_reviews.py: the block's records go to the reviews table
T_ExtractSR ==
    /\ prog = "text" /\ pc = "call"
    /\ pc' = "done"
    /\ output' = Written("scrape_reviews",
           upsert_branch_and_reviews(<<>>, Url,
               extract_reviews_sr(<<Block("r1", "Ann", <<"5", " stars">>, input)>>)))
    /\ UNCHANGED restVars

\* scrape.py: the block's records are cleaned and go to the CSV file
T_Extract ==
    /\ prog = "text" /\ pc = "call"
    /\ pc' = "done"
    /\ output' = Written("scrape",
           EnglishReviews(
               extract_reviews(<<Block("r1", "Ann", <<"5", " stars">>, input)>>)))
    /\ UNCHANGED restVars

\* scrape_google_maps.py: the div's records go to the reviews table
T_Maps ==
    /\ prog = "text" /\ pc = "call"
    /\ pc' = "done"
    /\ output' = Written("scrape_google_maps",
           save_places_to_db(<<>>, Url,
               parse_reviews_from_place_html(
                   <<MapsDiv(<<"Rated ", "5", " stars">>, input)>>)))
    /\ UNCHANGED restVars

InitText == InitFn("text", Texts) /\ SinkIdle

NextText == T_ExtractSR \/ T_Extract \/ T_Maps

SpecText == InitText /\ [][NextText]_vars

\* ======================================================================
\* the sink alone: sequential calls of _upsert_branch_and_reviews and
\* save_places_to_db
\* ======================================================================

\* a record handed to the sink
Review(text) == [author |-> "Ann", rating |-> 5, text |-> text]

\* the record lists of a call: any order, the same text twice included
ReviewLists == SeqsUpTo({Review(TextA), Review(TextB)}, MaxBatch)

\* existing = session.query(Branch)...first(); session.add(branch) when
\* there is none
UpsertBranch(btbl, url) ==
    IF \E k \in 1..Len(btbl) : btbl[k] = url THEN btbl ELSE Append(btbl, url)

\* what a call of the sink leaves alone
sinkFixed == <<prog, place_list, idx, pc, results, page, pages, previous_height,
               stagnant_loops, total_attempts, current_review_count, elapsed,
               handed, flagged, extracted, loop_exit, still,
               iterations, loop_hist, cmd,
               html, last_review_count, no_new_reviews_count, modal_seen_ids,
               modal_no_new, modal_rounds, seen_live_ids, no_new_rounds,
               rounds, accum, extra, csv, result, input, output, sessions>>

\* the end of a call: session.commit(), or a raise, session.rollback()
SinkCall(btbl, rtbl) ==
    /\ prog = "sink" /\ calls < MaxCalls
    /\ calls' = calls + 1
    /\ UNCHANGED sinkFixed
    /\ \/ /\ branches_tbl' = btbl
          /\ reviews_tbl' = rtbl
          /\ UNCHANGED faults
       \/ /\ CanFault
          /\ faults' = faults + 1
          /\ UNCHANGED <<branches_tbl, reviews_tbl>>

\* _upsert_branch_and_reviews(place_name, place_url, reviews), one session
K_Upsert ==
    \E url \in {"A", "B"}, reviews \in ReviewLists :
        SinkCall(UpsertBranch(branches_tbl, url),
                 upsert_branch_and_reviews(reviews_tbl, url, reviews))

\* save_places_to_db([p]) for one place
K_Save ==
    \E url \in {"A", "B"}, reviews \in ReviewLists :
        SinkCall(UpsertBranch(branches_tbl, url),
                 save_places_to_db(reviews_tbl, url, reviews))

InitSink == InitFn("sink", {<<>>}) /\ SinkIdle

NextSink == K_Upsert \/ K_Save

SpecSink == InitSink /\ [][NextSink]_vars

\* ======================================================================
\* the sink shared: two sessions run _upsert_branch_and_reviews for the same
\* feed url at once, each in its own transaction (read committed)
\* ======================================================================

\* the url both sessions save for
ConcUrl == "A"

\* the record lists of the sessions: no text twice in one list
ConcLists ==
    { l \in ReviewLists :
        l # <<>> /\ \A j, k \in 1..Len(l) : l[j].text = l[k].text => j = k }

\* session = SessionLocal(): its list, the statement it is at, its branch
\* ("none", "existing": the committed row, "new": a row it inserted), the
\* position in the list and the Review objects added and not yet committed
Session(reviews) ==
    [reviews |-> reviews, pc |-> "branch", branch |-> "none", k |-> 1,
     pending |-> <<>>]

\* a committed Branch row with the url
BranchStored == \E k \in 1..Len(branches_tbl) : branches_tbl[k] = ConcUrl

\* what a step of a session leaves alone
concFixed == <<prog, place_list, idx, pc, results, page, pages, previous_height,
               stagnant_loops, total_attempts, current_review_count, elapsed,
               handed, flagged, extracted, loop_exit, still,
               iterations, loop_hist, cmd,
               html, last_review_count, no_new_reviews_count, modal_seen_ids,
               modal_no_new, modal_rounds, seen_live_ids, no_new_rounds,
               rounds, accum, extra, csv, result, input, output, calls>>

\* existing = session.query(Branch).filter(Branch.url == place_url).first()
W_Branch(s) ==
    /\ prog = "conc" /\ sessions[s].pc = "branch"
    /\ sessions' = [sessions EXCEPT
           ![s].pc = IF BranchStored THEN "review" ELSE "flush",
           ![s].branch = IF BranchStored THEN "existing" ELSE "none"]
    /\ UNCHANGED <<branches_tbl, reviews_tbl, faults>>
    /\ UNCHANGED concFixed

\* The same with the INSERT of the Branch row committed by the flush itself.
W_Flush_Autocommit(s) ==
    /\ prog = "conc" /\ sessions[s].pc = "flush"
    /\ sessions' = [sessions EXCEPT
           ![s].pc = IF BranchStored THEN "failed" ELSE "review",
           ![s].branch = IF BranchStored THEN "none" ELSE "existing"]
    /\ branches_tbl' = IF BranchStored THEN branches_tbl
                       ELSE Append(branches_tbl, ConcUrl)
    /\ UNCHANGED <<reviews_tbl, faults>>
    /\ UNCHANGED concFixed

\* session.add(branch); session.flush(): the INSERT of the Branch row, whose
\* place_id is unique (models.py line 14). It waits while another session's
\* INSERT of the same place_id is not committed, and raises when the row is
\* committed by then: except Exception, session.rollback().
W_Flush(s) ==
    /\ prog = "conc" /\ sessions[s].pc = "flush"
    /\ ~\E o \in DOMAIN sessions :
           o # s /\ sessions[o].branch = "new" /\ sessions[o].pc \in {"review", "commit"}
    /\ sessions' = [sessions EXCEPT
           ![s].pc = IF BranchStored THEN "failed" ELSE "review",
           ![s].branch = IF BranchStored THEN "none" ELSE "new"]
    /\ UNCHANGED <<branches_tbl, reviews_tbl, faults>>
    /\ UNCHANGED concFixed

\* one pass of `for r in reviews`: the query reads the committed rows, the
\* Review that is added stays pending until the commit
W_Review(s) ==
    /\ prog = "conc" /\ sessions[s].pc = "review"
    /\ LET r == sessions[s].reviews[sessions[s].k]
           already == \E j \in 1..Len(reviews_tbl) :
                         /\ reviews_tbl[j].url = ConcUrl
                         /\ reviews_tbl[j].text = r.text
       IN sessions' = [sessions EXCEPT
             ![s].pending = IF already THEN @ ELSE Append(@, r),
             ![s].k = @ + 1,
             ![s].pc = IF sessions[s].k = Len(sessions[s].reviews)
                       THEN "commit" ELSE "review"]
    /\ UNCHANGED <<branches_tbl, reviews_tbl, faults>>
    /\ UNCHANGED concFixed

\* session.commit(): the session's rows are stored; or it raises and the
\* session is rolled back
W_Commit(s) ==
    /\ prog = "conc" /\ sessions[s].pc = "commit"
    /\ UNCHANGED concFixed
    /\ \/ /\ branches_tbl' = IF sessions[s].branch = "new"
                             THEN Append(branches_tbl, ConcUrl) ELSE branches_tbl
          /\ reviews_tbl' = reviews_tbl \o
                [k \in 1..Len(sessions[s].pending) |->
                    [url |-> ConcUrl, author |-> sessions[s].pending[k].author,
                     rating |-> sessions[s].pending[k].rating,
                     text |-> sessions[s].pending[k].text]]
          /\ sessions' = [sessions EXCEPT ![s].pc = "done", ![s].pending = <<>>]
          /\ UNCHANGED faults
       \/ /\ CanFault
          /\ faults' = faults + 1
          /\ sessions' = [sessions EXCEPT ![s].pc = "failed", ![s].pending = <<>>,
                                          ![s].branch = "none"]
          /\ UNCHANGED <<branches_tbl, reviews_tbl>>

InitConc ==
    /\ InitFn("conc", {<<>>})
    /\ calls = 0
    /\ branches_tbl \in {<<>>, <<ConcUrl>>}
    /\ sessions \in { <<Session(a), Session(b)>> : a, b \in ConcLists }

NextConc ==
    \E s \in 1..2 : W_Branch(s) \/ W_Flush(s) \/ W_Review(s) \/ W_Commit(s)

SpecConc == InitConc /\ [][NextConc]_vars

\* ======================================================================
\* one round of each session-scoped seen set
\* ======================================================================

\* the ids a round observes: any list of at most MaxIds ids, the same id
\* twice and the empty id included
IdLists == SeqsUpTo({"r1", "r2", ""}, MaxIds)

\* the seen set before a round, and the ids the round observes
SeenInputs == { [seen |-> sn, ids |-> l] : sn \in SUBSET {"r1", "r2"}, l \in IdLists }

\* what a round made of its ids: those it treated as new, in order, and
\* the seen set after it
Admitted(by, new_ids, seen) == [by |-> by, admitted |-> new_ids, seen |-> seen]

\* a record with the id rid
WithId(rid) == [Review(TextA) EXCEPT !.author = rid] @@ [review_id |-> rid]

\* lines 732-735: a round of the dialog's loop
A_ModalRound ==
    /\ prog = "seen" /\ pc = "call"
    /\ pc' = "done"
    /\ LET new_ids == NewIds(input.ids, input.seen)
       IN output' = Admitted("modal_seen_ids", new_ids,
                             input.seen \cup Elems(new_ids))
    /\ UNCHANGED restVars

\* lines 958-961: a live scroll round
A_LiveRound ==
    /\ prog = "seen" /\ pc = "call"
    /\ pc' = "done"
    /\ LET new_ids == NewIds(input.ids, input.seen)
       IN output' = Admitted("seen_live_ids", new_ids,
                             input.seen \cup Elems(new_ids))
    /\ UNCHANGED restVars

\* lines 996-999: an aggressive snapshot round; the extractor gives no
\* record an empty id
A_AccumRound ==
    /\ prog = "seen" /\ pc = "call"
    /\ "" \notin Elems(input.ids)
    /\ pc' = "done"
    /\ \E before \in { q \in SeqsUpTo(input.seen, 2) :
                          Elems(q) = input.seen /\ Len(q) = Cardinality(input.seen) } :
         LET acc0 == [k \in 1..Len(before) |-> WithId(before[k])]
             acc == AccumAdd(acc0, [k \in 1..Len(input.ids) |-> WithId(input.ids[k])])
             ids == [k \in 1..Len(acc) |-> acc[k].review_id]
         IN output' = Admitted("accum", SubSeq(ids, Len(acc0) + 1, Len(ids)),
                               Elems(ids))
    /\ UNCHANGED restVars

\* scrape.py lines 263-278: seen_texts of one call of the extractor, which
\* starts empty, over blocks with the ids
A_SeenTexts ==
    /\ prog = "seen" /\ pc = "call"
    /\ input.seen = {} /\ "" \notin Elems(input.ids)
    /\ Len(input.ids) <= MAX_REVIEWS_PER_BRANCH
    /\ pc' = "done"
    /\ LET reviews == extract_reviews(
                         [k \in 1..Len(input.ids) |->
                            Block(input.ids[k], "Ann", <<"5", " stars">>, TextA)])
           ids == [k \in 1..Len(reviews) |-> reviews[k].review_id[2]]
       IN output' = Admitted("seen_texts", ids, Elems(ids))
    /\ UNCHANGED restVars

InitSeen == InitFn("seen", SeenInputs) /\ SinkIdle

NextSeen == A_ModalRound \/ A_LiveRound \/ A_AccumRound \/ A_SeenTexts

\* ======================================================================
\* the date of a record
\* ======================================================================

\* A date string is the list of its words, which single spaces separate:
\* get_text(separator=" ", strip=True) leaves no space at either end.
\* "qabl", "yawm", "usbu", "shahr" and "sana" stand for the Arabic words of
\* the patterns of lines 113-116.
DateWords == {"2", "2023", "a", "ago", "on", "Jan", "day", "weeks", "Month",
              "year", "qabl", "yawm", "usbu", "shahr", "sana"}

\* the strings of at most MaxDateWords words, bare and followed by the
\* source suffix " on Google"
DateTexts ==
    LET bare == SeqsUpTo(DateWords, MaxDateWords)
    IN bare \cup { ws \o <<"on", "Google">> : ws \in bare }

\* int(m.group(1)) of a word of digits, -1 for any other word
NumOf(w) == CASE w = "2" -> 2 [] w = "2023" -> 2023 [] OTHER -> 0 - 1

\* text.lower(), word by word
LowerWord(w) ==
    CASE w = "Jan" -> "jan" [] w = "Month" -> "month" [] w = "Google" -> "google"
      [] OTHER -> w

Lower(ws) == [k \in 1..Len(ws) |-> LowerWord(ws[k])]

\* re.sub(r"\s+on\s+.*$", "", text): the text is cut before the first word
\* "on" that has a space on either side
CutSource(ws) ==
    LET ks == { k \in 2..(Len(ws) - 1) : ws[k] = "on" }
    IN IF ks = {} THEN ws
       ELSE SubSeq(ws, 1, (CHOOSE k \in ks : \A j \in ks : k <= j) - 1)

\* units whose weeks count as days
DateUnits_WeeksAsDays ==
    << [en |-> {"day", "days"}, ar |-> {"yawm"}, days |-> 1],
       [en |-> {"week", "weeks"}, ar |-> {"usbu"}, days |-> 1],
       [en |-> {"month", "months"}, ar |-> {"shahr"}, days |-> 30],
       [en |-> {"year", "years"}, ar |-> {"sana"}, days |-> 365] >>

\* the units of both pattern lists, in the order they are tried, with the
\* words that begin with the unit's pattern and the days timedelta counts
DateUnits ==
    << [en |-> {"day", "days"}, ar |-> {"yawm"}, days |-> 1],
       [en |-> {"week", "weeks"}, ar |-> {"usbu"}, days |-> 7],
       [en |-> {"month", "months"}, ar |-> {"shahr"}, days |-> 30],
       [en |-> {"year", "years"}, ar |-> {"sana"}, days |-> 365] >>

\* where (\d+)\s+<unit> matches: the positions of the number
EnglishAt(ws, u) ==
    { k \in 1..(Len(ws) - 1) : NumOf(ws[k]) >= 0 /\ ws[k + 1] \in u.en }

\* where qabl\s+(\d+)\s*<unit> matches: the positions of the number
ArabicAt(ws, u) ==
    { k \in 2..(Len(ws) - 1) :
        ws[k - 1] = "qabl" /\ NumOf(ws[k]) >= 0 /\ ws[k + 1] \in u.ar }

\* a date (now - timedelta(days)).strftime("%Y-%m-%d"), kept as the days
\* before now
DaysAgo(n) == [date |-> TRUE, days_ago |-> n, text |-> <<>>]

\* a date that is a text; the empty text is ""
DateText(ws) == [date |-> FALSE, days_ago |-> 0, text |-> ws]

\* the first unit of the list that matches, at its leftmost match
FirstMatch(At(_, _), ws) ==
    LET hits == { i \in 1..Len(DateUnits) : At(ws, DateUnits[i]) # {} }
    IN IF hits = {} THEN DateText(ws)
       ELSE LET i == CHOOSE h \in hits : \A j \in hits : h <= j
                ks == At(ws, DateUnits[i])
                k == CHOOSE h \in ks : \A j \in ks : h <= j
            IN DaysAgo(NumOf(ws[k]) * DateUnits[i].days)

\* a fallback that gives the empty date
DateFallback_Empty(text) == DateText(<<>>)

\* the fallback of parse_relative_date: return text
DateFallback(text) == DateText(text)

\* parse_relative_date of both scrapers
parse_relative_date(raw) ==
    IF raw = <<>> THEN DateText(<<>>)
    ELSE LET text == CutSource(Lower(raw))
             english == FirstMatch(EnglishAt, text)
             arabic == FirstMatch(ArabicAt, text)
         IN IF english.date THEN english
            ELSE IF arabic.date THEN arabic
            ELSE DateFallback(text)

\* scrape_reviews.py lines 139-151: the date of the record of a block whose
\* date tag holds the input
D_ScrapeReviews ==
    /\ prog = "date" /\ pc = "call"
    /\ pc' = "done"
    /\ output' = [by |-> "scrape_reviews.py",
                  review_date |-> parse_relative_date(input)]
    /\ UNCHANGED restVars

\* scrape.py lines 236-289: the dates of the record of a block whose date
\* tag holds the input
D_Scrape ==
    /\ prog = "date" /\ pc = "call"
    /\ pc' = "done"
    /\ output' = [by |-> "scrape.py",
                  review_date |-> parse_relative_date(input),
                  date_raw |-> input]
    /\ UNCHANGED restVars

InitDate == InitFn("date", DateTexts) /\ SinkIdle

NextDate == D_ScrapeReviews \/ D_Scrape

\* ======================================================================
\* one call of each extractor on a list of blocks
\* ======================================================================

\* the blocks of the lists: with or without a native id, with no author
\* element, an empty one or a named one, with either text; and a block
\* whose reading raises
BlockKinds ==
    { Block(rid, author, <<"5", " stars">>, text) :
        rid \in {"", "r1", "r2"}, author \in {NoTag, "", "Ann", "Bob"},
        text \in {TextA, TextB} }
    \cup { [Block(rid, "Ann", <<"5", " stars">>, TextA) EXCEPT !.raises = TRUE] :
             rid \in {"", "r1"} }

BlockLists == SeqsUpTo(BlockKinds, MaxBlocks)

\* reviews = [], seen_texts = set() (scrape_reviews.py 114-115, scrape.py
\* 137-138)
NoReviews == [reviews |-> <<>>, seen_texts |-> {}, stop |-> FALSE]

\* what a call left: the list it returns and its seen_texts
Extracted(by, st) == [by |-> by, reviews |-> st.reviews, seen_texts |-> st.seen_texts]

\* scrape_reviews.py lines 112-159
X_ExtractSR ==
    /\ prog = "blocks" /\ pc = "call"
    /\ pc' = "done"
    /\ output' = Extracted("scrape_reviews.py", ExtractLoopSR(NoReviews, input))
    /\ UNCHANGED restVars

\* scrape.py lines 136-296
X_Extract ==
    /\ prog = "blocks" /\ pc = "call"
    /\ pc' = "done"
    /\ output' = Extracted("scrape.py", ExtractLoop(NoReviews, SelectBlocks(input)))
    /\ UNCHANGED restVars

InitBlocks == InitFn("blocks", BlockLists) /\ SinkIdle

NextBlocks == X_ExtractSR \/ X_Extract

\* ======================================================================
\* scrape_reviews.py: load_branches_from_json
\* ======================================================================

\* a key the object does not have
NoKey == "<no key>"

\* the entries of the file's list: an object with or without "name" and
\* "url", a bare string, a number
JsonEntries ==
    { [kind |-> "dict", name |-> n, url |-> u, s |-> ""] :
        n \in {NoKey, "", "n"}, u \in {NoKey, "", "A"} }
    \cup { [kind |-> "str", name |-> NoKey, url |-> NoKey, s |-> v] : v \in {"", "A"} }
    \cup { [kind |-> "int", name |-> NoKey, url |-> NoKey, s |-> ""] }

JsonLists == SeqsUpTo(JsonEntries, MaxEntries)

\* it.get(key) is truthy
Truthy(v) == v \notin {NoKey, ""}

RECURSIVE load_branches_from_json(_)
\* lines 452-458: the loop over data
load_branches_from_json(data) ==
    IF data = <<>> THEN <<>>
    ELSE LET it == data[1]
             rest == load_branches_from_json(Tail(data))
         IN IF it.kind = "dict" /\ Truthy(it.url)
            THEN <<[name |-> IF Truthy(it.name) THEN it.name ELSE it.url,
                    url |-> it.url]>> \o rest
            ELSE IF it.kind = "str"
            THEN <<[name |-> it.s, url |-> it.s]>> \o rest
            ELSE rest

L_Load ==
    /\ prog = "load" /\ pc = "call"
    /\ pc' = "done"
    /\ output' = [by |-> "load_branches_from_json",
                  out |-> load_branches_from_json(input)]
    /\ UNCHANGED restVars

InitLoad == InitFn("load", JsonLists) /\ SinkIdle

NextLoad == L_Load

\* ======================================================================
\* agent_server.py: POST /run
\* ======================================================================

\* A request, by what decides it: whether insights_meta holds rows, whether
\* a query of the session raises, how the pipeline's process ends ("raise"
\* when it cannot be started) and whether it writes rows of insights_meta.
Requests ==
    [meta : BOOLEAN, query_raises : BOOLEAN, returncode : {"0", "1", "raise"},
     writes : BOOLEAN]

\* the value of a call that raises
Raised == [type |-> "raise"]

\* build_fallback_from_reviews(session, limit_branches): the module neither
\* defines nor imports the name, the call raises NameError
build_fallback_from_reviews == Raised

\* fetch_insights_from_db (lines 43-104) on a database where insights_meta
\* holds rows or not: the except clause calls the fallback again, and what
\* that raises leaves the function
fetch_insights_from_db(meta, query_raises) ==
    LET tried == IF query_raises THEN Raised
                 ELSE IF ~meta THEN build_fallback_from_reviews
                 ELSE [type |-> "insights_table"]
    IN IF tried = Raised THEN build_fallback_from_reviews ELSE tried

\* the response, with whether the pipeline was started on the way
Response(status_code, status, insights, ran) ==
    [by |-> "run_and_return_insights", status_code |-> status_code,
     status |-> status, insights |-> insights, ran |-> ran]

\* run_and_return_insights (lines 110-151)
run_and_return_insights(req) ==
    LET insights == fetch_insights_from_db(req.meta, req.query_raises)
    IN IF insights = Raised THEN Response(500, "error", "none", FALSE)
       ELSE IF insights.type = "insights_table"
       THEN Response(200, "success", insights.type, FALSE)
       ELSE IF req.returncode = "raise" THEN Response(500, "error", "none", FALSE)
       ELSE IF req.returncode # "0" THEN Response(500, "error", "none", TRUE)
       ELSE LET again == fetch_insights_from_db(req.meta \/ req.writes,
                                                req.query_raises)
            IN IF again = Raised THEN Response(500, "error", "none", TRUE)
               ELSE Response(200, "success", again.type, TRUE)

G_Run ==
    /\ prog = "agent" /\ pc = "call"
    /\ pc' = "done"
    /\ output' = run_and_return_insights(input)
    /\ UNCHANGED restVars

InitAgent == InitFn("agent", Requests) /\ SinkIdle

NextAgent == G_Run

\* ======================================================================
\* main_pipeline.py (both copies): the three stages, one subprocess each
\* ======================================================================

\* the two orchestrators: src/main_pipeline.py and src/src/main_pipeline.py
Orchestrators == {"run_module", "run_script"}

\* the stages in the order of the __main__ block
Stages(orch) ==
    IF orch = "run_module"
    THEN <<"src.run_scraper", "src.reviews_normalization",
           "src.reviews_insight_pipeline">>
    ELSE <<"run_scraper.py", "reviews_normalization.py",
           "reviews_insight_pipeline.py">>

\* result.returncode: the child's exit code, or minus the number of the
\* signal that ended it
ReturnCodes == {0, 1, 2, 255, -9}

\* the exit status of a process that calls sys.exit(n)
ExitStatus(n) == n % 256

\* no stage was started yet
NoStage == [by |-> "main_pipeline", started |-> <<>>, returncodes |-> <<>>,
            exit |-> <<>>]

\* the orchestrator so far
Pipeline == IF output = NoOutput THEN NoStage ELSE output

\* The same with the return code not looked at.
AfterStage_Unchecked(pl, stage, rc, last) ==
    [pl EXCEPT !.started = Append(@, stage),
               !.returncodes = Append(@, rc),
               !.exit = IF last THEN <<0>> ELSE <<>>]

\* run_module / run_script: the child has run and returned rc; a return
\* code other than 0 is the orchestrator's sys.exit, the end of the
\* __main__ block is exit status 0
AfterStage(pl, stage, rc, last) ==
    [pl EXCEPT !.started = Append(@, stage),
               !.returncodes = Append(@, rc),
               !.exit = IF rc # 0 THEN <<ExitStatus(rc)>>
                        ELSE IF last THEN <<0>> ELSE <<>>]

\* one call of run_module / run_script: subprocess.run starts the stage and
\* waits for it
P_RunStage ==
    /\ prog = "pipeline" /\ pc = "call"
    /\ LET k == Len(Pipeline.started) + 1
       IN \E rc \in ReturnCodes :
            LET pl == AfterStage(Pipeline, Stages(input)[k], rc,
                                 k = Len(Stages(input)))
            IN /\ output' = pl
               /\ pc' = IF pl.exit # <<>> THEN "done" ELSE "call"
    /\ UNCHANGED restVars

\* subprocess.run raises (the interpreter or the working directory "src" is
\* not there): no child has run, the traceback, exit status 1
P_RunRaises ==
    /\ prog = "pipeline" /\ pc = "call"
    /\ output' = [Pipeline EXCEPT !.exit = <<1>>]
    /\ pc' = "done"
    /\ UNCHANGED restVars

InitPipeline == InitFn("pipeline", Orchestrators) /\ SinkIdle

NextPipeline == P_RunStage \/ P_RunRaises

\* ======================================================================
\* _is_captcha_page (scrape_reviews.py 28-39, scrape.py 46-57) on a snapshot
\* ======================================================================

\* A snapshot is its text as a sequence of words; a phrase occurs in it as a
\* run of adjacent words.
SnapWords == {"unusual", "Unusual", "traffic", "TRAFFIC", "Recaptcha",
              "RECAPTCHA", "recaptcha", "help", "us", "confirm", "reviews"}

Snapshots == SeqsUpTo(SnapWords, MaxSnapWords)

\* captcha_signs, word by word
captcha_signs ==
    << <<"unusual", "traffic">>,
       <<"Our", "systems", "have", "detected", "unusual", "traffic">>,
       <<"To", "continue,", "please">>,
       <<"help", "us", "confirm">>,
       <<"Please", "show", "you're", "not", "a", "robot">>,
       <<"Recaptcha">> >>

\* str.lower() of a word
StrLowerWord(w) ==
    CASE w = "Unusual" -> "unusual" [] w = "TRAFFIC" -> "traffic"
      [] w = "Recaptcha" -> "recaptcha" [] w = "RECAPTCHA" -> "recaptcha"
      [] w = "Our" -> "our" [] w = "To" -> "to" [] w = "Please" -> "please"
      [] OTHER -> w

\* str.lower() of a text
StrLower(ws) == [k \in 1..Len(ws) |-> StrLowerWord(ws[k])]

\* s in text
Within(s, text) ==
    \E p \in 1..(Len(text) - Len(s) + 1) : SubSeq(text, p, p + Len(s) - 1) = s

\* The same with the signs compared as they are written.
is_captcha_page_SignsVerbatim(snapshot) ==
    LET lower == StrLower(snapshot)
    IN \E k \in 1..Len(captcha_signs) : Within(captcha_signs[k], lower)

\* lower = html.lower(); return any(s.lower() in lower for s in captcha_signs)
is_captcha_page(snapshot) ==
    LET lower == StrLower(snapshot)
    IN \E k \in 1..Len(captcha_signs) : Within(StrLower(captcha_signs[k]), lower)

\* the first call of the detector on the snapshot, by either file
H_Detect ==
    /\ prog = "captcha" /\ pc = "call"
    /\ pc' = "again"
    /\ \E by \in {"scrape_reviews.py", "scrape.py"} :
         output' = [by |-> by, blocked |-> is_captcha_page(input),
                    again |-> FALSE]
    /\ UNCHANGED restVars

\* a second call on the same snapshot
H_DetectAgain ==
    /\ prog = "captcha" /\ pc = "again"
    /\ pc' = "done"
    /\ output' = [output EXCEPT !.again = is_captcha_page(input)]
    /\ UNCHANGED restVars

InitCaptcha == InitFn("captcha", Snapshots) /\ SinkIdle

NextCaptcha == H_Detect \/ H_DetectAgain

\* ======================================================================
\* every program of the repository that is modelled
\* ======================================================================

Init == InitUrls \/ InitUrl \/ InitRating \/ InitText \/ InitSink
           \/ InitConc \/ InitSeen \/ InitDate \/ InitBlocks \/ InitLoad \/ InitAgent
           \/ InitPipeline \/ InitCaptcha

Next == NextUrls \/ NextUrl \/ NextRating \/ NextText \/ NextSink
           \/ NextConc \/ NextSeen \/ NextDate \/ NextBlocks \/ NextLoad \/ NextAgent
           \/ NextPipeline \/ NextCaptcha

Spec == Init /\ [][Next]_vars

\* ======================================================================
\* the claims
\* ======================================================================

CaptchaReasons == {"captcha", "captcha_after_scroll"}

\* the program is inside the scroll loop
InLoop == prog \in {"urls", "url"} /\ pc \in {"count", "scroll", "measure"}

\* C1: a multi-feed run returns exactly one result record per input feed, in
\* input order, whatever fails: when the run is over the result list is as
\* long as the feed list and its k-th record is the k-th feed's.
C1_OneRecordPerFeed ==
    (prog = "urls" /\ pc = "done") =>
        /\ Len(results) = Len(place_list)
        /\ \A k \in 1..Len(results) : results[k].i = k

\* C2: in a run over the always-flagged feed A and the normal feed B without
\* failures, in either order, A is reported skipped with a captcha reason and
\* B is reported not skipped with every record extracted for it committed.
C2_BlockedAndHarvested ==
    (prog = "urls" /\ pc = "done" /\ faults = 0
       /\ place_list \in {<<"A", "B">>, <<"B", "A">>}) =>
        /\ \E k \in 1..Len(results) :
              /\ results[k].url = "A"
              /\ results[k].skipped
              /\ results[k].reason \in CaptchaReasons
        /\ \E k \in 1..Len(results) :
              /\ results[k].url = "B"
              /\ ~results[k].skipped
              /\ \E j \in 1..Len(handed) :
                    /\ handed[j].i = results[k].i
                    /\ \A r \in 1..Len(handed[j].batch) :
                          \E t \in 1..Len(reviews_tbl) :
                              /\ reviews_tbl[t].url = "B"
                              /\ reviews_tbl[t].text = handed[j].batch[r].text

\* C3: a feed one of whose checked snapshots the detector flagged ends as
\* blocked: it has a record skipped with reason 'captcha' or
\* 'captcha_after_scroll' and no record that is not skipped, the extractor
\* was not run for it, and no batch of it went to the database or the CSV.
C3_BlockedFeedWritesNothing ==
    /\ prog = "urls" =>
         \A i \in flagged :
            /\ \E k \in 1..Len(results) :
                  /\ results[k].i = i
                  /\ results[k].reason \in CaptchaReasons
            /\ \A k \in 1..Len(results) : results[k].i = i => results[k].skipped
            /\ i \notin extracted
            /\ \A k \in 1..Len(handed) : handed[k].i # i
    /\ (prog = "url" /\ flagged # {}) =>
            /\ result.skipped
            /\ result.reason = (IF html.at = "nav" THEN "captcha"
                                ELSE "captcha_after_scroll")
            /\ result.reviews = <<>>
            /\ extracted = {}
            /\ handed = <<>>
            /\ csv = <<>>

\* C3 witness: a run is over in which one feed was flagged and another feed's
\* batch went to the sink.
C3_Witness ==
    /\ prog = "urls" /\ pc = "done"
    /\ flagged # {}
    /\ handed # <<>>

\* C4: the records a scroll iteration admitted are delivered to the sink
\* before the next iteration: at the top of an iteration that follows one
\* that saw blocks the extractor admits, a batch of this session has been
\* handed to persistence.
C4_DeliveredEachIteration ==
    (InLoop /\ pc = "count" /\ iterations > 0
       /\ (IF prog = "urls"
           THEN extract_reviews_sr(Snapshot(current_review_count)) # <<>>
           ELSE extract_reviews(Snapshot(current_review_count)) # <<>>)) =>
        \E k \in 1..Len(handed) : handed[k].i = idx

\* the most iterations the wall-clock ceiling lets the scroll loop make
MaxIterations ==
    IF prog = "urls" THEN timeout_seconds \div ScrollWaitMin + 1
    ELSE timeout_seconds_url \div SCROLL_PAUSE_TIME + 1

\* C5: once the measured height stops changing the scroll loop ends within
\* max_stagnant_loops further iterations, and no height sequence keeps it
\* iterating forever: inside the loop fewer than max_stagnant_loops
\* measurements in a row found the height unchanged, and the scroll
\* commands issued are no more than the wall-clock ceiling allows.
C5_StagnationEndsLoop ==
    InLoop =>
        /\ still < (IF prog = "urls" THEN max_stagnant_loops
                    ELSE max_stagnant_loops_url)
        /\ iterations <= MaxIterations

\* C5 witness: the loop of a feed ended because the height stayed unchanged
\* until the attempts ran out.
C5_Witness == prog = "urls" /\ loop_exit = "attempts" /\ pc = "afterloop"

\* the fingerprint of a record handed to persistence
Fingerprint(r) == IF prog = "urls" THEN Snippet(r.text) ELSE r.review_id

\* C6: within one feed session each fingerprint goes to the sink at most
\* once: no batch handed to persistence holds two records with the same
\* fingerprint, and no session hands over more than one batch.
C6_OncePerFingerprint ==
    /\ \A k \in 1..Len(handed) :
          \A a, b \in 1..Len(handed[k].batch) :
              a # b => Fingerprint(handed[k].batch[a]) # Fingerprint(handed[k].batch[b])
    /\ \A j, k \in 1..Len(handed) : j # k => handed[j].i # handed[k].i

\* C6 witness: a batch of two records was handed over, taken from a snapshot
\* that renders the first review twice.
C6_Witness ==
    /\ prog = "urls"
    /\ \E k \in 1..Len(handed) : Len(handed[k].batch) >= 2

\* C7: every record an extractor returns has a rating in 0..5, whatever the
\* rating label reads.
C7_RatingInRange ==
    (prog = "rating" /\ pc = "done" /\ output.rating # None) =>
        output.rating \in 0..5

\* C8: no record written to a sink (reviews table, CSV file) has a text
\* shorter than 10 characters, as stored.
C8_NoShortText ==
    (prog = "text" /\ pc = "done") =>
        \A k \in 1..Len(output.texts) : TextLen(output.texts[k]) >= MinTextLen

\* C9: an adapter error raised inside a scroll-loop iteration is caught
\* within the iteration and counted: the step in which it is raised leaves
\* the program inside the loop with total_attempts one higher.
C9_ErrorCountedLoopGoesOn ==
    [][(InLoop /\ faults' = faults + 1) =>
          (InLoop' /\ total_attempts' = total_attempts + 1)]_vars

\* C10: once the scroll loop of a feed has ended (target, wall-clock ceiling,
\* stagnation, attempts) no scroll or expand command is issued for that feed.
C10_NoCommandAfterLoop ==
    loop_exit \in {"target", "timeout", "stagnation", "attempts"} =>
        cmd \notin {"scroll", "scroll+expand"}

\* the stagnation limit of the variant that runs
StagnationLimit ==
    IF prog = "urls" THEN max_stagnant_loops ELSE max_stagnant_loops_url

\* C11: a loop whose height stagnates while fewer than 10 items are rendered
\* resets the counter at max_stagnant_loops and runs on instead of stopping:
\* the step that gives such a loop up (the while condition fails) follows
\* more than max_stagnant_loops stagnant measurements, the ones before the
\* reset and the rounds after it.
C11_FewItemsRetried ==
    [][(InLoop /\ pc = "measure" /\ current_review_count < FewReviews
          /\ loop_exit' \in {"stagnation", "attempts"}) =>
          total_attempts + 1 > StagnationLimit]_vars

\* the last record of results belongs to the feed in progress
LastRec == results[Len(results)]

\* C12: when the scroll loop ended on the wall-clock ceiling and the final
\* snapshot is not flagged, the snapshot's records are extracted and the
\* feed is reported not skipped with their count; unless a later call
\* failed they are all in the reviews table.
C12_TimeoutKeepsRecords ==
    (prog = "urls" /\ pc = "close" /\ loop_exit = "timeout"
       /\ idx \notin flagged) =>
        /\ idx \in extracted
        /\ results # <<>> /\ LastRec.i = idx /\ ~LastRec.skipped
        /\ \E k \in 1..Len(handed) :
              /\ handed[k].i = idx
              /\ LastRec.found = Len(handed[k].batch)
              /\ faults = 0 =>
                    \A r \in 1..Len(handed[k].batch) :
                        \E t \in 1..Len(reviews_tbl) :
                            /\ reviews_tbl[t].url = Url
                            /\ reviews_tbl[t].text = handed[k].batch[r].text

\* C12 witness: a feed whose loop timed out was harvested without a failure
\* and its snapshot held records.
C12_Witness ==
    /\ prog = "urls" /\ pc = "close" /\ loop_exit = "timeout"
    /\ idx \notin flagged /\ faults = 0
    /\ \E k \in 1..Len(handed) : handed[k].i = idx /\ handed[k].batch # <<>>

\* the ways the scroll loop ends short of the target count
ShortOfTarget == {"timeout", "stagnation", "attempts", "error"}

\* C13: a feed result whose session ended for another reason than reaching
\* the target count carries a reason naming the cause: the record of a feed
\* whose loop ended on the wall-clock ceiling, on stagnation, on the attempts
\* ceiling or on a caught error has a reason that is not empty.
C13_ReasonPopulated ==
    /\ (prog = "urls" /\ pc = "close" /\ loop_exit \in ShortOfTarget) =>
          LastRec.reason # ""
    /\ (prog = "url" /\ pc = "done" /\ loop_exit \in ShortOfTarget) =>
          result.reason # ""

\* C14: the count a feed result reports as new equals the number of records
\* written to the sink in that session: when a scrape.py session returns a
\* record that is not skipped, its `new` is the number of rows of the CSV
\* file the session wrote.
C14_NewCountsWrittenRows ==
    (prog = "url" /\ pc = "done" /\ ~result.skipped) =>
        result.new = Len(csv)

\* the step in which the save of the feed's batch raises
SaveFails ==
    /\ prog = "urls" /\ pc = "finally"
    /\ extracted' # extracted
    /\ faults' = faults + 1

\* C15: a sink failure while a feed's batch is saved does not leave the
\* save: the same step appends the feed's record, not skipped, and writes no
\* row; from there the page is closed and the run goes to the next feed
\* with no second batch and no row written.
C15_SinkFailureContained ==
    [][/\ SaveFails =>
            /\ pc' = "close" /\ idx' = idx
            /\ Len(results') = Len(results) + 1
            /\ results'[Len(results')].i = idx
            /\ ~results'[Len(results')].skipped
            /\ reviews_tbl' = reviews_tbl
       /\ (prog = "urls" /\ pc = "close") =>
            /\ idx' = idx + 1
            /\ handed' = handed
            /\ reviews_tbl' = reviews_tbl]_vars

\* C15 witness: a run over two feeds is over; the first feed's batch held
\* records, its save failed (no row is stored) and it is reported not
\* skipped; the second feed has its record too.
C15_Witness ==
    /\ prog = "urls" /\ pc = "done"
    /\ Len(results) = 2 /\ results[1].i = 1 /\ results[2].i = 2
    /\ ~results[1].skipped
    /\ \E k \in 1..Len(handed) : handed[k].i = 1 /\ handed[k].batch # <<>>
    /\ reviews_tbl = <<>>

\* C16: after any sequence of sequential upsert calls the reviews table holds
\* at most one row per (branch, text).
C16_OneRowPerBranchText ==
    prog = "sink" =>
        \A j, k \in 1..Len(reviews_tbl) :
            (reviews_tbl[j].url = reviews_tbl[k].url
               /\ reviews_tbl[j].text = reviews_tbl[k].text) => j = k

\* C17: two sessions that save overlapping records for the same feed url at
\* once leave, when both have ended without an injected failure, at most one
\* Branch row for the url, at most one Review row per text, and a row for
\* every record of either session.
C17_ConcurrentUpsertsSafe ==
    (prog = "conc" /\ faults = 0
       /\ \A s \in DOMAIN sessions : sessions[s].pc \in {"done", "failed"}) =>
        /\ \A j, k \in 1..Len(branches_tbl) :
              branches_tbl[j] = branches_tbl[k] => j = k
        /\ \A j, k \in 1..Len(reviews_tbl) :
              reviews_tbl[j].text = reviews_tbl[k].text => j = k
        /\ \A s \in DOMAIN sessions :
              \A r \in 1..Len(sessions[s].reviews) :
                 \E t \in 1..Len(reviews_tbl) :
                    reviews_tbl[t].text = sessions[s].reviews[r].text

\* C18: in a round of a session-scoped seen set an id is treated as new
\* exactly once, the first time it is observed: no id is admitted twice,
\* also when the round observes it twice; no id of the seen set is admitted;
\* every other id observed is admitted; and the seen set loses nothing.
C18_NewExactlyOnce ==
    (prog = "seen" /\ pc = "done") =>
        /\ \A j, k \in 1..Len(output.admitted) :
              output.admitted[j] = output.admitted[k] => j = k
        /\ Elems(output.admitted) \cap input.seen = {}
        /\ Elems(input.ids) \ (input.seen \cup {""}) \subseteq Elems(output.admitted)
        /\ input.seen \subseteq output.seen

\* the fingerprints the session of scrape.py treats as already seen: the
\* ids of the live rounds, then the keys of accum
SeenNow ==
    IF pc \in {"live", "liveend"} THEN seen_live_ids
    ELSE IF pc = "aggr" THEN { accum[k].review_id : k \in 1..Len(accum) }
    ELSE {}

\* C19: from the first live round to the last aggressive snapshot of a
\* session the set of fingerprints treated as already seen never gets
\* smaller, the step from the live rounds to the snapshots included.
C19_SeenNeverShrinks ==
    [][(prog = "url" /\ pc \in {"live", "liveend", "aggr"}
          /\ pc' \in {"live", "liveend", "aggr"}) =>
          Cardinality(SeenNow') >= Cardinality(SeenNow)]_vars

\* the date string is a relative-time phrase the parser recognises
Recognised == output.review_date.date

IsPrefix(p, ws) == Len(p) <= Len(ws) /\ SubSeq(ws, 1, Len(p)) = p

DaysNamed(w) ==
    CASE LowerWord(w) \in {"day", "days"} -> 1
      [] LowerWord(w) \in {"week", "weeks"} -> 7
      [] LowerWord(w) \in {"month", "months"} -> 30
      [] LowerWord(w) \in {"year", "years"} -> 365
      [] OTHER -> 0

\* the input is 'N <unit> ago', bare or followed by ' on Google'
IsAgoPhrase ==
    /\ Len(input) \in {3, 5}
    /\ NumOf(input[1]) >= 0 /\ DaysNamed(input[2]) > 0 /\ input[3] = "ago"
    /\ Len(input) = 5 => SubSeq(input, 4, 5) = <<"on", "Google">>

C22_AuthorNeverEmpty ==
    (prog = "blocks" /\ pc = "done") =>
        \A k \in 1..Len(output.reviews) : output.reviews[k].author # ""

\* the author a block's record gets when it has no author text
AuthorOf(b) == IF b.author \in {NoTag, ""} THEN "Unknown" ELSE b.author

\* C23: of two blocks of one call, both read without a raise, the same
\* native id gives one record; different native ids give two records, and
\* so do no native id and different authors, also when the texts are the
\* same.
C23_IdentityByNativeId ==
    (prog = "blocks" /\ pc = "done" /\ Len(input) = 2
       /\ ~input[1].raises /\ ~input[2].raises) =>
        LET b1 == input[1]
            b2 == input[2]
        IN /\ (b1.rid # "" /\ b1.rid = b2.rid) => Len(output.reviews) = 1
           /\ (b1.rid # "" /\ b2.rid # "" /\ b1.rid # b2.rid) =>
                 Len(output.reviews) = 2
           /\ (b1.rid = "" /\ b2.rid = "" /\ AuthorOf(b1) # AuthorOf(b2)) =>
                 Len(output.reviews) = 2

\* the blocks of a list whose reading does not raise
Readable(blocks) == SelectSeq(blocks, LAMBDA b : ~b.raises)

\* C24: a block whose processing raises gives no record and no entry of
\* seen_texts, and the call returns what it returns for the list of
\* blocks without the raising ones.
C24_RaisingBlockSkipped ==
    (prog = "blocks" /\ pc = "done") =>
        LET st == IF output.by = "scrape_reviews.py"
                  THEN ExtractLoopSR(NoReviews, Readable(input))
                  ELSE ExtractLoop(NoReviews, Readable(SelectBlocks(input)))
        IN /\ output.reviews = st.reviews
           /\ output.seen_texts = st.seen_texts

\* scrape_reviews.py read a raising block and then a block that gave a
\* record
C24_Witness ==
    /\ prog = "blocks" /\ pc = "done" /\ output.by = "scrape_reviews.py"
    /\ Len(input) = 2 /\ input[1].raises /\ input[1].rid # ""
    /\ Len(output.reviews) = 1

\* the records handed to persistence in the session of feed i
HandedIn(i) == SelectSeq(handed, LAMBDA h : h.i = i)

RECURSIVE BatchTotal(_)
BatchTotal(hs) == IF hs = <<>> THEN 0 ELSE Len(hs[1].batch) + BatchTotal(Tail(hs))

\* C25: a call of an extractor returns at most MAX_REVIEWS_PER_BRANCH
\* records, and the records handed to persistence in one feed session are
\* never more than the session's target still leaves room for.
C25_AtMostTarget ==
    /\ (prog = "blocks" /\ pc = "done") =>
          Len(output.reviews) <= MAX_REVIEWS_PER_BRANCH
    /\ prog \in {"urls", "url"} =>
          \A k \in 1..Len(handed) :
             BatchTotal(HandedIn(handed[k].i)) <= MAX_REVIEWS_PER_BRANCH

\* a session of scrape_reviews.py whose page rendered more blocks than the
\* target handed over exactly the target
C25_Witness ==
    /\ prog = "urls" /\ handed # <<>>
    /\ Len(handed[1].batch) = MAX_REVIEWS_PER_BRANCH
    /\ Len(extract_reviews_sr(Readable(SiteBlocks))) = MAX_REVIEWS_PER_BRANCH
    /\ Len(Readable(SiteBlocks)) > MAX_REVIEWS_PER_BRANCH

\* the url an entry names: the "url" of an object, a bare string itself,
\* NoKey for anything else
UrlNamed(it) ==
    IF it.kind = "dict" THEN it.url ELSE IF it.kind = "str" THEN it.s ELSE NoKey

\* C26: load_branches_from_json returns, in input order, one descriptor
\* for every entry that names a url, with the entry's name, or the url when
\* it has no name; no descriptor has an empty name or an empty url.
C26_DescriptorsInOrder ==
    (prog = "load" /\ pc = "done") =>
        LET kept == SelectSeq(input, LAMBDA it : UrlNamed(it) \notin {NoKey, ""})
        IN /\ Len(output.out) = Len(kept)
           /\ \A k \in 1..Len(output.out) :
                 /\ k <= Len(kept) =>
                       /\ output.out[k].url = UrlNamed(kept[k])
                       /\ output.out[k].name =
                             IF kept[k].name \in {NoKey, ""}
                             THEN UrlNamed(kept[k]) ELSE kept[k].name
                 /\ output.out[k].name # "" /\ output.out[k].url # ""

\* C27: POST /run, when no query of the database raises: insights that
\* exist are returned with status success and the pipeline is not started;
\* when none exist the pipeline is started and, when it exits with code 0,
\* the response has status success.
C27_RunReturnsOrRunsPipeline ==
    (prog = "agent" /\ pc = "done" /\ ~input.query_raises) =>
        /\ input.meta =>
              /\ output.status = "success" /\ output.insights = "insights_table"
              /\ ~output.ran
        /\ (~input.meta /\ input.returncode # "raise") => output.ran
        /\ (~input.meta /\ input.returncode = "0") => output.status = "success"

\* where scrape_reviews.py issues its next command on the page `page` names
OnPage == {"goto", "content", "click", "content2", "count", "scroll", "measure",
           "afterloop", "finally"}

\* C28: every page operation of scrape_reviews_from_place_urls is issued on
\* a page that is open: a page closed at the end of one feed is not the page
\* of a later feed's operations.
C28_OperationsOnOpenPage ==
    (prog = "urls" /\ pc \in OnPage) => PageOpen

\* the attempts ceiling of the variant that runs
AttemptsLimit ==
    IF prog = "urls" THEN max_total_attempts ELSE max_total_attempts_url

\* C29: in the scroll loop stagnant_loops <= total_attempts, total_attempts
\* never decreases and stays within max_total_attempts, so with the limits
\* of the source stagnant_loops never reaches max_stagnant_loops and the
\* loop is left through the attempts ceiling, the target or the timeout (or
\* a raise of a page command), never through stagnation.
C29_AttemptsBoundStagnation ==
    [][(prog = "urls" \/ prog = "url") =>
          (/\ stagnant_loops' <= total_attempts'
           /\ total_attempts' <= AttemptsLimit
           /\ stagnant_loops' < StagnationLimit
           /\ loop_exit' \in {"none", "attempts", "target", "timeout", "error"}
           /\ (InLoop /\ InLoop') => total_attempts' >= total_attempts)]_vars

\* the loop of scrape.py was left through the attempts ceiling
C29_Witness == prog = "url" /\ pc = "afterloop" /\ loop_exit = "attempts"

\* C30: an iteration of the scroll loop that measures a height not above
\* the previous one (equal or smaller) adds one to the stagnation counter,
\* and the counter is set back to zero only by a height above the previous
\* one.
C30_NoGrowthCountsAsStagnant ==
    [][(InLoop /\ pc = "measure" /\ pc' = "count") =>
          (/\ previous_height' <= previous_height =>
                 stagnant_loops' = stagnant_loops + 1
           /\ stagnant_loops' = 0 => previous_height' > previous_height)]_vars

\* ----------------------------------------------------------------- C31
\* C31: the expansion of the truncated texts is periodic and not done in
\* every iteration: an iteration of the scroll loop that follows an iteration
\* in which an expansion was tried tries none itself, also while the feed
\* grows in every iteration.
C31_ExpandNotEveryIteration ==
    [][(InLoop /\ pc = "scroll" /\ loop_hist.expanded)
         => cmd' # "scroll+expand"]_vars

\* ----------------------------------------------------------------- C32
\* C32: an iteration of the scroll loop compares the count it read with the
\* target first: the iteration goes on to its scroll only with a count below
\* the target; with a count at or above the target the loop is left at once
\* by the target's break, no scroll or expand command issued and no wait
\* made, also when the time is up; the timeout's break is taken only with a
\* count below the target.
C32_TargetCheckedFirst ==
    [][(InLoop /\ pc = "count")
         => /\ cmd' = "none"
            /\ pc' = "scroll" => /\ current_review_count' < MAX_REVIEWS_PER_BRANCH
                                 /\ elapsed' = elapsed
            /\ loop_exit' = "timeout"
                 => loop_hist'.count < MAX_REVIEWS_PER_BRANCH
            /\ loop_hist'.count >= MAX_REVIEWS_PER_BRANCH
                 => pc' = "afterloop" /\ loop_exit' = "target"]_vars

\* the loop of scrape_reviews.py was left by the target's break with the
\* time up as well
C32_Witness ==
    /\ prog = "urls" /\ pc = "afterloop" /\ loop_exit = "target"
    /\ loop_hist.count >= MAX_REVIEWS_PER_BRANCH /\ loop_hist.late

\* ----------------------------------------------------------------- C33
\* C33: the snapshot from which a feed's persisted records are extracted is
\* one the detector was shown and classified as not blocked: in scrape.py the
\* snapshot held in `html` when the batch is written is the one of the
\* detector's check, in scrape_reviews.py the feed is not flagged.
C33_ExtractedSnapshotWasChecked ==
    [][((prog = "urls" \/ prog = "url") /\ handed' # handed)
         => IF prog = "url" THEN html.at = "post" /\ ~html.flag
            ELSE idx \notin flagged']_vars

\* ----------------------------------------------------------------- C36
\* a Review row of the feed with the text
Stored(tbl, text) ==
    \E j \in 1..Len(tbl) : tbl[j].url = ConcUrl /\ tbl[j].text = text

\* C36: a call of _upsert_branch_and_reviews is all or nothing: the tables
\* change only in the step in which a session's commit succeeds; a session
\* that ends in its except clause has changed neither table; a commit that
\* succeeds leaves the feed's Branch row and a Review row for every text of
\* the session's batch.
C36_UpsertAllOrNothing ==
    [][prog = "conc" =>
         \A s \in DOMAIN sessions :
            /\ sessions'[s].pc = sessions[s].pc
                 => (\/ UNCHANGED <<branches_tbl, reviews_tbl>>
                     \/ \E o \in DOMAIN sessions :
                           sessions[o].pc = "commit" /\ sessions'[o].pc = "done")
            /\ (sessions'[s].pc # sessions[s].pc /\ sessions'[s].pc # "done")
                 => UNCHANGED <<branches_tbl, reviews_tbl>>
            /\ (sessions'[s].pc # sessions[s].pc /\ sessions'[s].pc = "done")
                 => /\ \E k \in 1..Len(branches_tbl') : branches_tbl'[k] = ConcUrl
                    /\ \A k \in 1..Len(sessions[s].reviews) :
                          Stored(reviews_tbl', sessions[s].reviews[k].text)]_vars

\* a session that had inserted the Branch row failed at its commit, and no
\* Branch row is stored
C36_Witness ==
    /\ prog = "conc" /\ faults > 0 /\ ~BranchStored
    /\ \E s \in DOMAIN sessions : sessions[s].pc = "failed"

\* ----------------------------------------------------------------- C35
\* C35: every record the aggressive snapshot rounds of scrape.py put into
\* accum is among the reviews the call returns, also when the final snapshot
\* does not hold it.
C35_AccumulatedReturned ==
    [][(prog = "url" /\ pc = "extract")
         => \A k \in 1..Len(accum) :
               \E j \in 1..Len(result'.reviews) :
                  result'.reviews[j].review_id = accum[k].review_id]_vars

C37_StagesInOrderUntilFailure ==
    (prog = "pipeline" /\ output # NoOutput) =>
        /\ Len(output.started) <= Len(Stages(input))
        /\ \A k \in 1..Len(output.started) :
              /\ output.started[k] = Stages(input)[k]
              /\ k > 1 => output.returncodes[k - 1] = 0
              /\ output.returncodes[k] # 0
                   => /\ k = Len(output.started)
                      /\ pc = "done"
                      /\ output.exit # <<>> /\ output.exit[1] # 0
                      /\ output.returncodes[k] > 0
                           => output.exit[1] = output.returncodes[k]

\* the second stage returned 2 and the orchestrator ended with status 2
C37_Witness ==
    /\ prog = "pipeline" /\ pc = "done"
    /\ Len(output.started) = 2 /\ output.returncodes = <<0, 2>>
    /\ output.exit = <<2>>

\* ----------------------------------------------------------------- C38
\* the spellings of one word that differ in case only
CaseClasses ==
    { {"unusual", "Unusual"}, {"traffic", "TRAFFIC"},
      {"recaptcha", "Recaptcha", "RECAPTCHA"}, {"our", "Our"}, {"to", "To"},
      {"please", "Please"} }

\* two words that are equal when case is ignored
SameIgnoringCase(a, b) ==
    a = b \/ \E c \in CaseClasses : a \in c /\ b \in c

\* the snapshot holds the phrase, case ignored
HoldsPhrase(text, s) ==
    \E p \in 1..(Len(text) - Len(s) + 1) :
        \A k \in 1..Len(s) : SameIgnoringCase(text[p + k - 1], s[k])

\* C38: _is_captcha_page answers blocked exactly for the snapshots that hold
\* one of the phrases of its list, case ignored: a snapshot with none of them
\* is not flagged, and a second call on the same snapshot gives the same
\* answer.
C38_BlockedIffPhrase ==
    (prog = "captcha" /\ pc # "call") =>
        /\ output.blocked <=>
              \E k \in 1..Len(captcha_signs) : HoldsPhrase(input, captcha_signs[k])
        /\ pc = "done" => output.again = output.blocked

\* a snapshot flagged twice that holds a phrase in another case only
C38_Witness ==
    /\ prog = "captcha" /\ pc = "done" /\ output.blocked /\ output.again
    /\ \A k \in 1..Len(captcha_signs) : ~Within(captcha_signs[k], input)

====
